---- MODULE Spec2Model ----
(***************************************************************************)
(* Permission-aware task/field mutation engine of the Scrum task board:    *)
(* the service layer (taskService, userService, groupService), the board   *)
(* handlers of App/TaskGroup that write to the store directly, the         *)
(* relational store with its foreign-key rules and the audit log.          *)
(*                                                                         *)
(* Every service call is modelled at its await points: the pre-image       *)
(* fetch (with the permission check that follows it synchronously), the    *)
(* row write and the log_audit call are separate steps of the in-flight    *)
(* operation held in op.                                                   *)
(***************************************************************************)
EXTENDS Integers, Sequences, FiniteSets, TLC

VARIABLES users, groups, tasks, audit, view, op, nops, limit, auth

vars == <<users, groups, tasks, audit, view, op, nops, limit, auth>>

store == <<users, groups, tasks>>

(***************************************************************************)
(* Bounds of the exploration.                                              *)
(***************************************************************************)
\* operations started in one behaviour of Spec
MaxOps == 1
\* operations started in one behaviour of SpecLock
MaxLockOps == 4
\* operations started in one behaviour of SpecAudit
MaxAuditOps == 2

(***************************************************************************)
(* Values.                                                                 *)
(***************************************************************************)
\* SQL NULL / JS null in a scalar column
NULL == "null"
\* a missing row, a null snapshot (getTaskById returning null, p_old_values null)
NoRow == [null |-> TRUE]

\* browser sessions issuing operations
Sessions == {"s1", "s2"}

UserIds == {"u1", "u2", "u3", "u4"}
TaskIds == {"t1", "t2"}
GroupIds == {"g1", "g2"}

UserRole == {"admin", "mod", "member"}
UserStatus == {"pending", "active", "locked"}
TaskStatus == {"Not Started", "Working on it", "Stucking", "In Review", "Done"}

\* the task columns the board edits (handleUpdateTask writes exactly these)
EditedColumns == {"task", "owner", "assign", "status", "reviewer", "review"}

\* String.prototype.toLowerCase on the usernames and reviewer names in use
toLowerCase(s) ==
    CASE s = "ALICE" -> "alice"
      [] s = "Carol" -> "carol"
      [] OTHER -> s

(***************************************************************************)
(* Store helpers.                                                          *)
(***************************************************************************)
\* supabase.from('tasks').select('*').eq('id', taskId).single(): null when
\* the row is missing or the request fails
getTaskById(taskId, fetchFails) ==
    IF fetchFails \/ tasks[taskId] = NoRow THEN NoRow ELSE tasks[taskId]

getUserById(userId, fetchFails) ==
    IF fetchFails \/ users[userId] = NoRow THEN NoRow ELSE users[userId]

getTaskGroupById(groupId, fetchFails) ==
    IF fetchFails \/ groups[groupId] = NoRow THEN NoRow ELSE groups[groupId]

\* UPDATE ... SET <updates> on one row: the columns named are replaced
ApplyUpdates(row, updates) ==
    [k \in DOMAIN row |-> IF k \in DOMAIN updates THEN updates[k] ELSE row[k]]

\* { ...lockedFields, [fieldName]: value }
SpreadLocked(lockedFields, fieldName, value) ==
    [k \in (DOMAIN lockedFields) \cup {fieldName} |->
        IF k = fieldName THEN value ELSE lockedFields[k]]

\* a lock test that asks only whether the key is present (fieldName in lockedFields)
isFieldLocked_KeyPresent(task, fieldName) ==
    fieldName \in DOMAIN task.locked_fields

\* task.locked_fields?.[fieldName] === true
isFieldLocked(task, fieldName) ==
    /\ fieldName \in DOMAIN task.locked_fields
    /\ task.locked_fields[fieldName] = TRUE

\* an error list that names every touched field once one of them is locked
attemptedLockedFields_AllTouched(oldTask, updates) ==
    IF \E field \in DOMAIN updates : isFieldLocked(oldTask, field)
    THEN DOMAIN updates
    ELSE {}

\* Object.keys(updates).filter(field => lockedFields[field] === true)
attemptedLockedFields(oldTask, updates) ==
    {field \in DOMAIN updates : isFieldLocked(oldTask, field)}

\* the audit row log_audit inserts
AuditEntry(p_user_id, p_action, p_entity_type, p_entity_id, p_entity_name, p_old_values, p_new_values) ==
    [user_id     |-> p_user_id,
     username    |-> IF users[p_user_id] = NoRow THEN NULL
                     ELSE users[p_user_id].username,
     action      |-> p_action,
     entity_type |-> p_entity_type,
     entity_id   |-> p_entity_id,
     entity_name |-> p_entity_name,
     old_values  |-> p_old_values,
     new_values  |-> p_new_values]

\* log_audit: the insert violates audit_logs.user_id REFERENCES users when
\* the acting user's row is gone; the rpc then returns an error that no
\* caller inspects, as it does when the request itself fails
log_audit(entry, auditFails) ==
    IF auditFails \/ users[entry.user_id] = NoRow
    THEN audit
    ELSE Append(audit, entry)

(***************************************************************************)
(* The in-flight operation.                                                *)
(***************************************************************************)
Idle ==
    [kind |-> "none", actor |-> NULL, role |-> NULL, target |-> NULL,
     field |-> NULL, updates |-> NoRow, old |-> NoRow, data |-> NoRow,
     i |-> 0, pc |-> "done", result |-> "none", rejected |-> {}]

\* AuthContext of one browser: the StoredSession under SESSION_KEY in
\* localStorage and the `user` state
SignedOut == [session |-> NoRow, user |-> NoRow]

CanStart(s) ==
    op[s].pc = "done" /\ nops < limit

SetOp(s, r) == op' = [op EXCEPT ![s] = r]

Finish(s, result) ==
    SetOp(s, [op[s] EXCEPT !.pc = "done", !.result = result])

(***************************************************************************)
(* taskService.updateTask                                                  *)
(***************************************************************************)
\* lines 93-109: pre-image fetch, 'Task not found', member lock check
updateTaskFetch(s, taskId, updates, userId, fetchFails) ==
    /\ CanStart(s)
    /\ users[userId] # NoRow
    /\ LET oldTask == getTaskById(taskId, fetchFails)
           userRole == users[userId].role
           started == [Idle EXCEPT !.kind = "updateTask", !.actor = userId,
                                   !.role = userRole, !.target = taskId,
                                   !.updates = updates, !.old = oldTask]
       IN  SetOp(s, IF oldTask = NoRow
                 THEN [started EXCEPT !.result = "not_found"]
                 ELSE IF /\ userRole = "member"
                         /\ attemptedLockedFields(oldTask, updates) # {}
                 THEN [started EXCEPT !.result = "denied",
                          !.rejected = attemptedLockedFields(oldTask, updates)]
                 ELSE [started EXCEPT !.pc = "fetched", !.result = "pending"])
    /\ nops' = nops + 1
    /\ UNCHANGED <<users, groups, tasks, audit, view, limit, auth>>

\* lines 111-121: update(updates).eq('id', taskId).select().single()
updateTaskWrite(s, writeFails) ==
    /\ op[s].kind = "updateTask" /\ op[s].pc = "fetched"
    /\ IF \/ writeFails
          \/ tasks[op[s].target] = NoRow
          \* tasks.group_id REFERENCES task_groups(id)
          \/ /\ "group_id" \in DOMAIN op[s].updates
             /\ groups[op[s].updates.group_id] = NoRow
       THEN /\ Finish(s, "error")
            /\ UNCHANGED tasks
       ELSE /\ tasks' = [tasks EXCEPT ![op[s].target] = ApplyUpdates(@, op[s].updates)]
            /\ SetOp(s, [op[s] EXCEPT !.pc = "written",
                                      !.data = tasks'[op[s].target]])
    /\ UNCHANGED <<users, groups, audit, view, nops, limit, auth>>

\* an updateTask that throws when the log_audit call fails
updateTaskLog_Throws(s, auditFails) ==
    /\ op[s].kind = "updateTask" /\ op[s].pc = "written"
    /\ audit' = log_audit(AuditEntry(op[s].actor, "update", "task", op[s].target,
                                     op[s].data.task, op[s].old, op[s].updates),
                          auditFails)
    /\ Finish(s, IF auditFails THEN "error" ELSE "ok")
    /\ UNCHANGED <<users, groups, tasks, view, nops, limit, auth>>

\* lines 123-134: log_audit('update', 'task', ..., oldTask, updates)
updateTaskLog(s, auditFails) ==
    /\ op[s].kind = "updateTask" /\ op[s].pc = "written"
    /\ audit' = log_audit(AuditEntry(op[s].actor, "update", "task", op[s].target,
                                     op[s].data.task, op[s].old, op[s].updates),
                          auditFails)
    /\ Finish(s, "ok")
    /\ UNCHANGED <<users, groups, tasks, view, nops, limit, auth>>

(***************************************************************************)
(* taskService.lockTaskField / unlockTaskField                             *)
(***************************************************************************)
\* lines 174-183: pre-image fetch, 'Task not found'; no check of the caller
lockTaskFieldFetch(s, taskId, fieldName, userId, fetchFails) ==
    /\ CanStart(s)
    /\ users[userId] # NoRow
    /\ LET oldTask == getTaskById(taskId, fetchFails)
           started == [Idle EXCEPT !.kind = "lockTaskField", !.actor = userId,
                                   !.role = users[userId].role,
                                   !.target = taskId, !.field = fieldName,
                                   !.old = oldTask]
       IN  SetOp(s, IF oldTask = NoRow
                 THEN [started EXCEPT !.result = "not_found"]
                 ELSE [started EXCEPT !.pc = "fetched", !.result = "pending",
                          !.updates =
                             [locked_fields |->
                                 SpreadLocked(oldTask.locked_fields, fieldName, TRUE),
                              locked_by |-> userId]])
    /\ nops' = nops + 1
    /\ UNCHANGED <<users, groups, tasks, audit, view, limit, auth>>

\* lines 185-198: update({locked_fields, locked_by}); locked_by REFERENCES users
lockTaskFieldWrite(s, writeFails) ==
    /\ op[s].kind = "lockTaskField" /\ op[s].pc = "fetched"
    /\ IF writeFails \/ tasks[op[s].target] = NoRow \/ users[op[s].actor] = NoRow
       THEN /\ Finish(s, "error")
            /\ UNCHANGED tasks
       ELSE /\ tasks' = [tasks EXCEPT ![op[s].target] = ApplyUpdates(@, op[s].updates)]
            /\ SetOp(s, [op[s] EXCEPT !.pc = "written",
                                      !.data = tasks'[op[s].target]])
    /\ UNCHANGED <<users, groups, audit, view, nops, limit, auth>>

\* a lock that skips the audit entry when the map did not change
lockTaskFieldLog_Dedup(s, auditFails) ==
    /\ op[s].kind = "lockTaskField" /\ op[s].pc = "written"
    /\ audit' = IF op[s].old.locked_fields = op[s].updates.locked_fields
                THEN audit
                ELSE log_audit(AuditEntry(op[s].actor, "lock", "task", op[s].target,
                                 op[s].old.task \o " - " \o op[s].field,
                                 [locked_fields |-> op[s].old.locked_fields],
                                 [locked_fields |-> op[s].updates.locked_fields]),
                               auditFails)
    /\ SetOp(s, [op[s] EXCEPT !.pc = "done", !.result = "ok"])
    /\ UNCHANGED <<users, groups, tasks, view, nops, limit, auth>>

\* lines 200-211: log_audit('lock', 'task', ..., `${oldTask.task} - ${fieldName}`)
lockTaskFieldLog(s, auditFails) ==
    /\ op[s].kind = "lockTaskField" /\ op[s].pc = "written"
    /\ audit' = log_audit(AuditEntry(op[s].actor, "lock", "task", op[s].target,
                             op[s].old.task \o " - " \o op[s].field,
                             [locked_fields |-> op[s].old.locked_fields],
                             [locked_fields |-> op[s].updates.locked_fields]),
                          auditFails)
    /\ Finish(s, "ok")
    /\ UNCHANGED <<users, groups, tasks, view, nops, limit, auth>>

\* lines 220-229
unlockTaskFieldFetch(s, taskId, fieldName, userId, fetchFails) ==
    /\ CanStart(s)
    /\ users[userId] # NoRow
    /\ LET oldTask == getTaskById(taskId, fetchFails)
           started == [Idle EXCEPT !.kind = "unlockTaskField", !.actor = userId,
                                   !.role = users[userId].role,
                                   !.target = taskId, !.field = fieldName,
                                   !.old = oldTask]
       IN  SetOp(s, IF oldTask = NoRow
                 THEN [started EXCEPT !.result = "not_found"]
                 ELSE [started EXCEPT !.pc = "fetched", !.result = "pending",
                          !.updates =
                             [locked_fields |->
                                 SpreadLocked(oldTask.locked_fields, fieldName, FALSE)]])
    /\ nops' = nops + 1
    /\ UNCHANGED <<users, groups, tasks, audit, view, limit, auth>>

\* lines 231-243: update({locked_fields}); locked_by is left as it is
unlockTaskFieldWrite(s, writeFails) ==
    /\ op[s].kind = "unlockTaskField" /\ op[s].pc = "fetched"
    /\ IF writeFails \/ tasks[op[s].target] = NoRow
       THEN /\ Finish(s, "error")
            /\ UNCHANGED tasks
       ELSE /\ tasks' = [tasks EXCEPT ![op[s].target] = ApplyUpdates(@, op[s].updates)]
            /\ SetOp(s, [op[s] EXCEPT !.pc = "written",
                                      !.data = tasks'[op[s].target]])
    /\ UNCHANGED <<users, groups, audit, view, nops, limit, auth>>

\* lines 245-256
unlockTaskFieldLog(s, auditFails) ==
    /\ op[s].kind = "unlockTaskField" /\ op[s].pc = "written"
    /\ audit' = log_audit(AuditEntry(op[s].actor, "unlock", "task", op[s].target,
                             op[s].old.task \o " - " \o op[s].field,
                             [locked_fields |-> op[s].old.locked_fields],
                             [locked_fields |-> op[s].updates.locked_fields]),
                          auditFails)
    /\ Finish(s, "ok")
    /\ UNCHANGED <<users, groups, tasks, view, nops, limit, auth>>

(***************************************************************************)
(* taskService.deleteTask                                                  *)
(***************************************************************************)
\* line 142: the pre-image is fetched for the audit entry only
deleteTaskFetch(s, taskId, userId, fetchFails) ==
    /\ CanStart(s)
    /\ users[userId] # NoRow
    /\ SetOp(s, [Idle EXCEPT !.kind = "deleteTask", !.actor = userId,
                             !.role = users[userId].role, !.target = taskId,
                             !.old = getTaskById(taskId, fetchFails),
                             !.pc = "fetched", !.result = "pending"])
    /\ nops' = nops + 1
    /\ UNCHANGED <<users, groups, tasks, audit, view, limit, auth>>

\* lines 144-152: delete().eq('id', taskId) reports no error for a missing row
deleteTaskWrite(s, writeFails) ==
    /\ op[s].kind = "deleteTask" /\ op[s].pc = "fetched"
    /\ IF writeFails
       THEN /\ Finish(s, "error")
            /\ UNCHANGED tasks
       ELSE /\ tasks' = [tasks EXCEPT ![op[s].target] = NoRow]
            /\ SetOp(s, [op[s] EXCEPT !.pc = "written"])
    /\ UNCHANGED <<users, groups, audit, view, nops, limit, auth>>

\* lines 154-165: if (oldTask) log_audit('delete', ...)
deleteTaskLog(s, auditFails) ==
    /\ op[s].kind = "deleteTask" /\ op[s].pc = "written"
    /\ audit' = IF op[s].old = NoRow THEN audit
                ELSE log_audit(AuditEntry(op[s].actor, "delete", "task", op[s].target,
                                          op[s].old.task, op[s].old, NoRow),
                               auditFails)
    /\ Finish(s, "ok")
    /\ UNCHANGED <<users, groups, tasks, view, nops, limit, auth>>

(***************************************************************************)
(* taskService.createTask                                                  *)
(***************************************************************************)
\* task[column] when the caller supplies it, the column's DEFAULT otherwise
Column(task, column, default) ==
    IF column \in DOMAIN task THEN task[column] ELSE default

\* the row INSERT builds from { ...task, created_by, locked_fields: task.locked_fields || {} }
NewTaskRow(task, userId) ==
    [group_id      |-> task.group_id,
     task          |-> Column(task, "task", ""),
     owner         |-> Column(task, "owner", ""),
     assign        |-> Column(task, "assign", ""),
     status        |-> Column(task, "status", "Not Started"),
     reviewer      |-> Column(task, "reviewer", ""),
     review        |-> Column(task, "review", ""),
     locked_fields |-> Column(task, "locked_fields", <<>>),
     locked_by     |-> NULL,
     created_by    |-> userId]

FreeTaskIds == {t \in TaskIds : tasks[t] = NoRow}

\* lines 56-69: insert; group_id and created_by are foreign keys
createTaskWrite(s, task, userId, writeFails) ==
    /\ CanStart(s)
    /\ users[userId] # NoRow
    /\ FreeTaskIds # {}
    /\ LET id == CHOOSE t \in FreeTaskIds : TRUE
           started == [Idle EXCEPT !.kind = "createTask", !.actor = userId,
                                   !.role = users[userId].role, !.target = id,
                                   !.updates = task]
       IN  IF writeFails \/ groups[task.group_id] = NoRow
           THEN /\ SetOp(s, [started EXCEPT !.result = "error"])
                /\ UNCHANGED tasks
           ELSE /\ tasks' = [tasks EXCEPT ![id] = NewTaskRow(task, userId)]
                /\ SetOp(s, [started EXCEPT !.pc = "written", !.result = "pending",
                                             !.data = NewTaskRow(task, userId)])
    /\ nops' = nops + 1
    /\ UNCHANGED <<users, groups, audit, view, limit, auth>>

\* lines 71-82: log_audit('create', 'task', data.id, data.task, null, data)
createTaskLog(s, auditFails) ==
    /\ op[s].kind = "createTask" /\ op[s].pc = "written"
    /\ audit' = log_audit(AuditEntry(op[s].actor, "create", "task", op[s].target,
                                     op[s].data.task, NoRow, op[s].data),
                          auditFails)
    /\ Finish(s, "ok")
    /\ UNCHANGED <<users, groups, tasks, view, nops, limit, auth>>

(***************************************************************************)
(* userService: updateUser, approveUser, rejectUser, lockUser, unlockUser, *)
(* deleteUser.  None of them inspects the caller.                          *)
(***************************************************************************)
\* const oldUser = await getUserById(userId)
StartUserOp(s, kind, userId, updates, currentUserId, fetchFails) ==
    /\ CanStart(s)
    /\ users[currentUserId] # NoRow
    /\ SetOp(s, [Idle EXCEPT !.kind = kind, !.actor = currentUserId,
                             !.role = users[currentUserId].role,
                             !.target = userId, !.updates = updates,
                             !.old = getUserById(userId, fetchFails),
                             !.pc = "fetched", !.result = "pending"])
    /\ nops' = nops + 1
    /\ UNCHANGED <<users, groups, tasks, audit, view, limit, auth>>

\* from('users').update(updates).eq('id', userId).select().single()
WriteUserUpdate(s, kind, writeFails) ==
    /\ op[s].kind = kind /\ op[s].pc = "fetched"
    /\ IF writeFails \/ users[op[s].target] = NoRow
       THEN /\ Finish(s, "error")
            /\ UNCHANGED users
       ELSE /\ users' = [users EXCEPT ![op[s].target] = ApplyUpdates(@, op[s].updates)]
            /\ SetOp(s, [op[s] EXCEPT !.pc = "written",
                                      !.data = users'[op[s].target]])
    /\ UNCHANGED <<groups, tasks, audit, view, nops, limit, auth>>

\* a column REFERENCES users(id) ON DELETE SET NULL
SetNull(ref, userId) == IF ref = userId THEN NULL ELSE ref

\* a user delete under audit_logs.user_id ... ON DELETE CASCADE
WriteUserDelete_Cascade(s, kind, writeFails) ==
    /\ op[s].kind = kind /\ op[s].pc = "fetched"
    /\ IF writeFails
       THEN /\ SetOp(s, [op[s] EXCEPT !.pc = "done", !.result = "error"])
            /\ UNCHANGED <<users, audit>>
       ELSE /\ users' = [users EXCEPT ![op[s].target] = NoRow]
            /\ audit' = SelectSeq(audit, LAMBDA e : e.user_id # op[s].target)
            /\ SetOp(s, [op[s] EXCEPT !.pc = "written"])
    /\ UNCHANGED <<groups, tasks, view, nops, limit, auth>>

\* from('users').delete().eq('id', userId), with the ON DELETE SET NULL rules
\* of task_groups.created_by, tasks.locked_by, tasks.created_by and
\* audit_logs.user_id
WriteUserDelete(s, kind, writeFails) ==
    /\ op[s].kind = kind /\ op[s].pc = "fetched"
    /\ IF writeFails
       THEN /\ Finish(s, "error")
            /\ UNCHANGED <<users, groups, tasks, audit>>
       ELSE LET userId == op[s].target
                gone == users[userId] # NoRow
            IN  /\ users' = [users EXCEPT ![userId] = NoRow]
                /\ groups' = [g \in GroupIds |->
                     IF groups[g] = NoRow \/ ~gone THEN groups[g]
                     ELSE [groups[g] EXCEPT !.created_by = SetNull(@, userId)]]
                /\ tasks' = [t \in TaskIds |->
                     IF tasks[t] = NoRow \/ ~gone THEN tasks[t]
                     ELSE [tasks[t] EXCEPT !.locked_by = SetNull(@, userId),
                                           !.created_by = SetNull(@, userId)]]
                /\ audit' = [i \in 1..Len(audit) |->
                     IF ~gone THEN audit[i]
                     ELSE [audit[i] EXCEPT !.user_id = SetNull(@, userId)]]
                /\ SetOp(s, [op[s] EXCEPT !.pc = "written"])
    /\ UNCHANGED <<view, nops, limit, auth>>

\* if (data && oldUser) log_audit(...)   resp.   if (oldUser) log_audit(...)
LogUserOp(s, kind, action, entity_name, old_values, new_values, auditFails) ==
    /\ op[s].kind = kind /\ op[s].pc = "written"
    /\ audit' = IF op[s].old = NoRow THEN audit
                ELSE log_audit(AuditEntry(op[s].actor, action, "user", op[s].target,
                                          entity_name, old_values, new_values),
                               auditFails)
    /\ Finish(s, "ok")
    /\ UNCHANGED <<users, groups, tasks, view, nops, limit, auth>>

RoleStatus(user) == [role |-> user.role, status |-> user.status]

\* taskService.ts lines 327-361
updateUserFetch(s, userId, updates, currentUserId, fetchFails) ==
    StartUserOp(s, "updateUser", userId, updates, currentUserId, fetchFails)
updateUserWrite(s, writeFails) == WriteUserUpdate(s, "updateUser", writeFails)
updateUserLog(s, auditFails) ==
    LogUserOp(s, "updateUser", "update", op[s].data.username,
              RoleStatus(op[s].old), op[s].updates, auditFails)

\* lines 364-397: update({ status: 'active', role })
approveUserFetch(s, userId, role, currentUserId, fetchFails) ==
    StartUserOp(s, "approveUser", userId, [status |-> "active", role |-> role],
                currentUserId, fetchFails)
approveUserWrite(s, writeFails) == WriteUserUpdate(s, "approveUser", writeFails)
approveUserLog(s, auditFails) ==
    LogUserOp(s, "approveUser", "approve", op[s].data.username,
              RoleStatus(op[s].old), op[s].updates, auditFails)

\* lines 400-428
rejectUserFetch(s, userId, currentUserId, fetchFails) ==
    StartUserOp(s, "rejectUser", userId, NoRow, currentUserId, fetchFails)
rejectUserWrite(s, writeFails) == WriteUserDelete(s, "rejectUser", writeFails)
rejectUserLog(s, auditFails) ==
    LogUserOp(s, "rejectUser", "reject", op[s].old.username,
              RoleStatus(op[s].old), NoRow, auditFails)

\* lines 431-463
lockUserFetch(s, userId, currentUserId, fetchFails) ==
    StartUserOp(s, "lockUser", userId, [status |-> "locked"], currentUserId, fetchFails)
lockUserWrite(s, writeFails) == WriteUserUpdate(s, "lockUser", writeFails)
lockUserLog(s, auditFails) ==
    LogUserOp(s, "lockUser", "lock", op[s].data.username,
              [status |-> op[s].old.status], op[s].updates, auditFails)

\* lines 466-498
unlockUserFetch(s, userId, currentUserId, fetchFails) ==
    StartUserOp(s, "unlockUser", userId, [status |-> "active"], currentUserId, fetchFails)
unlockUserWrite(s, writeFails) == WriteUserUpdate(s, "unlockUser", writeFails)
unlockUserLog(s, auditFails) ==
    LogUserOp(s, "unlockUser", "unlock", op[s].data.username,
              [status |-> op[s].old.status], op[s].updates, auditFails)

\* lines 501-529
deleteUserFetch(s, userId, currentUserId, fetchFails) ==
    StartUserOp(s, "deleteUser", userId, NoRow, currentUserId, fetchFails)
deleteUserWrite(s, writeFails) == WriteUserDelete(s, "deleteUser", writeFails)
deleteUserLog(s, auditFails) ==
    LogUserOp(s, "deleteUser", "delete", op[s].old.username,
              [username |-> op[s].old.username, role |-> op[s].old.role,
               status |-> op[s].old.status],
              NoRow, auditFails)

(***************************************************************************)
(* groupService: createTaskGroup, updateTaskGroup, deleteTaskGroup         *)
(***************************************************************************)
FreeGroupIds == {g \in GroupIds : groups[g] = NoRow}

\* lines 40-52: insert({ ...group, created_by: userId })
createTaskGroupWrite(s, group, userId, writeFails) ==
    /\ CanStart(s)
    /\ users[userId] # NoRow
    /\ FreeGroupIds # {}
    /\ LET id == CHOOSE g \in FreeGroupIds : TRUE
           row == [name |-> group.name, sort_order |-> group.sort_order,
                   created_by |-> userId]
           started == [Idle EXCEPT !.kind = "createTaskGroup", !.actor = userId,
                                   !.role = users[userId].role, !.target = id,
                                   !.updates = group]
       IN  IF writeFails
           THEN /\ SetOp(s, [started EXCEPT !.result = "error"])
                /\ UNCHANGED groups
           ELSE /\ groups' = [groups EXCEPT ![id] = row]
                /\ SetOp(s, [started EXCEPT !.pc = "written", !.result = "pending",
                                             !.data = row])
    /\ nops' = nops + 1
    /\ UNCHANGED <<users, tasks, audit, view, limit, auth>>

\* lines 54-65
createTaskGroupLog(s, auditFails) ==
    /\ op[s].kind = "createTaskGroup" /\ op[s].pc = "written"
    /\ audit' = log_audit(AuditEntry(op[s].actor, "create", "group", op[s].target,
                                     op[s].data.name, NoRow, op[s].data),
                          auditFails)
    /\ Finish(s, "ok")
    /\ UNCHANGED <<users, groups, tasks, view, nops, limit, auth>>

\* line 75
updateTaskGroupFetch(s, groupId, updates, userId, fetchFails) ==
    /\ CanStart(s)
    /\ users[userId] # NoRow
    /\ SetOp(s, [Idle EXCEPT !.kind = "updateTaskGroup", !.actor = userId,
                             !.role = users[userId].role, !.target = groupId,
                             !.updates = updates,
                             !.old = getTaskGroupById(groupId, fetchFails),
                             !.pc = "fetched", !.result = "pending"])
    /\ nops' = nops + 1
    /\ UNCHANGED <<users, groups, tasks, audit, view, limit, auth>>

\* lines 77-87: update(updates).eq('id', groupId).select().single()
updateTaskGroupWrite(s, writeFails) ==
    /\ op[s].kind = "updateTaskGroup" /\ op[s].pc = "fetched"
    /\ IF writeFails \/ groups[op[s].target] = NoRow
       THEN /\ Finish(s, "error")
            /\ UNCHANGED groups
       ELSE /\ groups' = [groups EXCEPT ![op[s].target] = ApplyUpdates(@, op[s].updates)]
            /\ SetOp(s, [op[s] EXCEPT !.pc = "written",
                                      !.data = groups'[op[s].target]])
    /\ UNCHANGED <<users, tasks, audit, view, nops, limit, auth>>

\* lines 89-100: logged whether or not the pre-image was found
updateTaskGroupLog(s, auditFails) ==
    /\ op[s].kind = "updateTaskGroup" /\ op[s].pc = "written"
    /\ audit' = log_audit(AuditEntry(op[s].actor, "update", "group", op[s].target,
                                     op[s].data.name, op[s].old, op[s].updates),
                          auditFails)
    /\ Finish(s, "ok")
    /\ UNCHANGED <<users, groups, tasks, view, nops, limit, auth>>

\* line 108
deleteTaskGroupFetch(s, groupId, userId, fetchFails) ==
    /\ CanStart(s)
    /\ users[userId] # NoRow
    /\ SetOp(s, [Idle EXCEPT !.kind = "deleteTaskGroup", !.actor = userId,
                             !.role = users[userId].role, !.target = groupId,
                             !.old = getTaskGroupById(groupId, fetchFails),
                             !.pc = "fetched", !.result = "pending"])
    /\ nops' = nops + 1
    /\ UNCHANGED <<users, groups, tasks, audit, view, limit, auth>>

\* a group delete that leaves the tasks of the group in place
deleteTaskGroupWrite_NoCascade(s, writeFails) ==
    /\ op[s].kind = "deleteTaskGroup" /\ op[s].pc = "fetched"
    /\ IF writeFails
       THEN /\ Finish(s, "error")
            /\ UNCHANGED <<groups, tasks>>
       ELSE /\ groups' = [groups EXCEPT ![op[s].target] = NoRow]
            /\ UNCHANGED tasks
            /\ SetOp(s, [op[s] EXCEPT !.pc = "written"])
    /\ UNCHANGED <<users, audit, view, nops, limit, auth>>

\* lines 110-118: delete().eq('id', groupId); tasks.group_id is ON DELETE CASCADE
deleteTaskGroupWrite(s, writeFails) ==
    /\ op[s].kind = "deleteTaskGroup" /\ op[s].pc = "fetched"
    /\ IF writeFails
       THEN /\ Finish(s, "error")
            /\ UNCHANGED <<groups, tasks>>
       ELSE /\ groups' = [groups EXCEPT ![op[s].target] = NoRow]
            /\ tasks' = [t \in TaskIds |->
                 IF tasks[t] # NoRow /\ tasks[t].group_id = op[s].target
                 THEN NoRow ELSE tasks[t]]
            /\ SetOp(s, [op[s] EXCEPT !.pc = "written"])
    /\ UNCHANGED <<users, audit, view, nops, limit, auth>>

\* lines 120-131: if (oldGroup) log_audit('delete', 'group', ...)
deleteTaskGroupLog(s, auditFails) ==
    /\ op[s].kind = "deleteTaskGroup" /\ op[s].pc = "written"
    /\ audit' = IF op[s].old = NoRow THEN audit
                ELSE log_audit(AuditEntry(op[s].actor, "delete", "group", op[s].target,
                                          op[s].old.name, op[s].old, NoRow),
                               auditFails)
    /\ Finish(s, "ok")
    /\ UNCHANGED <<users, groups, tasks, view, nops, limit, auth>>

(***************************************************************************)
(* groupService.reorderTaskGroups: one row update per id, in list order,   *)
(* then one audit entry.  op.i is the 0-based index of the next update;    *)
(* op.old keeps the groups as they were at call entry, which the code does *)
(* not read: it is there for the properties to compare against.            *)
(***************************************************************************)
\* lines 135-142: groupIds.map((id, index) => ({ id, sort_order: index }))
reorderTaskGroupsStart(s, groupIds, userId) ==
    /\ CanStart(s)
    /\ users[userId] # NoRow
    /\ SetOp(s, [Idle EXCEPT !.kind = "reorderTaskGroups", !.actor = userId,
                             !.role = users[userId].role,
                             !.updates = [order |-> groupIds],
                             !.old = groups,
                             !.pc = IF groupIds = <<>> THEN "written" ELSE "writing",
                             !.result = "pending"])
    /\ nops' = nops + 1
    /\ UNCHANGED <<users, groups, tasks, audit, view, limit, auth>>

\* a reorder that stores index + 1 (1-based positions)
reorderTaskGroupsWrite_OneBased(s, writeFails) ==
    /\ op[s].kind = "reorderTaskGroups" /\ op[s].pc = "writing"
    /\ LET id == op[s].updates.order[op[s].i + 1]
           last == op[s].i + 1 = Len(op[s].updates.order)
       IN  IF writeFails
           THEN /\ Finish(s, "error")
                /\ UNCHANGED groups
           ELSE /\ groups' = IF groups[id] = NoRow THEN groups
                             ELSE [groups EXCEPT ![id].sort_order = op[s].i + 1]
                /\ SetOp(s, [op[s] EXCEPT !.i = @ + 1,
                                          !.pc = IF last THEN "written" ELSE "writing"])
    /\ UNCHANGED <<users, tasks, audit, view, nops, limit, auth>>

\* a reorder that undoes its earlier updates when one fails
reorderTaskGroupsWrite_Rollback(s, writeFails) ==
    /\ op[s].kind = "reorderTaskGroups" /\ op[s].pc = "writing"
    /\ LET id == op[s].updates.order[op[s].i + 1]
           last == op[s].i + 1 = Len(op[s].updates.order)
       IN  IF writeFails
           THEN /\ Finish(s, "error")
                /\ groups' = op[s].old
           ELSE /\ groups' = IF groups[id] = NoRow THEN groups
                             ELSE [groups EXCEPT ![id].sort_order = op[s].i]
                /\ SetOp(s, [op[s] EXCEPT !.i = @ + 1,
                                          !.pc = IF last THEN "written" ELSE "writing"])
    /\ UNCHANGED <<users, tasks, audit, view, nops, limit, auth>>

\* lines 144-154: update({ sort_order }).eq('id', update.id), without
\* .single(): an id that matches no row is no error; an error is thrown at
\* once, leaving the earlier updates in place
reorderTaskGroupsWrite(s, writeFails) ==
    /\ op[s].kind = "reorderTaskGroups" /\ op[s].pc = "writing"
    /\ LET id == op[s].updates.order[op[s].i + 1]
           last == op[s].i + 1 = Len(op[s].updates.order)
       IN  IF writeFails
           THEN /\ Finish(s, "error")
                /\ UNCHANGED groups
           ELSE /\ groups' = IF groups[id] = NoRow THEN groups
                             ELSE [groups EXCEPT ![id].sort_order = op[s].i]
                /\ SetOp(s, [op[s] EXCEPT !.i = @ + 1,
                                          !.pc = IF last THEN "written" ELSE "writing"])
    /\ UNCHANGED <<users, tasks, audit, view, nops, limit, auth>>

\* lines 156-165: log_audit('update', 'group', null, 'Group order', null,
\* { order: groupIds })
reorderTaskGroupsLog(s, auditFails) ==
    /\ op[s].kind = "reorderTaskGroups" /\ op[s].pc = "written"
    /\ audit' = log_audit(AuditEntry(op[s].actor, "update", "group", NULL,
                                     "Group order", NoRow,
                                     [order |-> op[s].updates.order]),
                          auditFails)
    /\ Finish(s, "ok")
    /\ UNCHANGED <<users, groups, tasks, view, nops, limit, auth>>

(***************************************************************************)
(* The board: TaskGroupComponent cells and App.handleUpdateTask, which     *)
(* writes the edited row straight to the store.                            *)
(***************************************************************************)
\* helpers.ts lines 94-104; no service and no handler reads it
LOCKABLE_FIELDS ==
    {"task", "owner", "assign", "status", "estimate_date", "notes", "reviewer", "review"}

\* TaskGroup.tsx line 384
isAdminOrMod(userRole) == userRole = "admin" \/ userRole = "mod"

\* TaskGroup.tsx line 521
isMemberAndLocked(userRole, task, field) ==
    ~isAdminOrMod(userRole) /\ isFieldLocked(task, field)

\* TaskGroup.tsx lines 420-423
canEditReview(task, currentUser) ==
    toLowerCase(task.reviewer) = toLowerCase(currentUser.username)

\* TaskGroup.tsx lines 425-428
canSelectDone(task, currentUser) ==
    toLowerCase(task.reviewer) = toLowerCase(currentUser.username)

\* whether the cell of `field` lets currentUser submit `value`: the text and
\* user cells are disabled by isMemberAndLocked, the review cell by
\* canEditReview, the status dropdown only withholds Done, the owner cell
\* is display-only
CellAccepts(task, field, value, currentUser) ==
    CASE field = "review" -> canEditReview(task, currentUser)
      [] field = "status" -> value = "Done" => canSelectDone(task, currentUser)
      [] field = "owner" -> FALSE
      [] OTHER -> ~isMemberAndLocked(currentUser.role, task, field)

\* Router.tsx line 32 / AuthContext.tsx line 253: the board is rendered for
\* an active user only
isActive(currentUser) == currentUser.status = "active"

\* handleFieldChange / handleStatusChange -> handleUpdateTask: update of the
\* ten edited columns from the local copy, no pre-image, no audit entry
handleUpdateTask(s, taskId, field, value, userId, writeFails) ==
    /\ CanStart(s)
    /\ users[userId] # NoRow
    /\ isActive(users[userId])
    /\ view[taskId] # NoRow
    /\ CellAccepts(view[taskId], field, value, users[userId])
    /\ LET task == [view[taskId] EXCEPT ![field] = value]
           sent == [c \in EditedColumns |-> task[c]]
           started == [Idle EXCEPT !.kind = "handleUpdateTask", !.actor = userId,
                                   !.role = users[userId].role,
                                   !.target = taskId, !.field = field,
                                   !.updates = sent, !.old = view[taskId]]
       IN  IF writeFails
           THEN /\ SetOp(s, [started EXCEPT !.result = "error"])
                /\ UNCHANGED <<tasks, view>>
           ELSE /\ tasks' = [tasks EXCEPT ![taskId] =
                                IF @ = NoRow THEN @ ELSE ApplyUpdates(@, sent)]
                /\ view' = [view EXCEPT ![taskId] = task]
                /\ SetOp(s, [started EXCEPT !.result = "ok"])
    /\ nops' = nops + 1
    /\ UNCHANGED <<users, groups, audit, limit, auth>>

\* App.loadData: the board's copy of the tasks is replaced by the stored rows
loadData ==
    /\ view # tasks
    /\ view' = tasks
    /\ UNCHANGED <<users, groups, tasks, audit, op, nops, limit, auth>>

(***************************************************************************)
(* Initial store: three active users of the three roles, one admin whose   *)
(* account is pending or locked, one group holding one task.               *)
(***************************************************************************)
User(username, role, status) ==
    [username |-> username, role |-> role, status |-> status]

InitUsers(status4) ==
    [u \in UserIds |->
        CASE u = "u1" -> User("alice", "admin", "active")
          [] u = "u2" -> User("bob", "mod", "active")
          [] u = "u3" -> User("Carol", "member", "active")
          [] u = "u4" -> User("dave", "admin", status4)]

Group(name, sort_order, created_by) ==
    [name |-> name, sort_order |-> sort_order, created_by |-> created_by]

InitGroups ==
    [g \in GroupIds |->
        IF g = "g1" THEN Group("Sprint 1", 0, "u1") ELSE Group("Sprint 2", 1, "u2")]

Task(group_id, owner, reviewer, locked_fields, created_by) ==
    [group_id |-> group_id, task |-> "T", owner |-> owner, assign |-> "",
     status |-> "Not Started", reviewer |-> reviewer, review |-> "",
     locked_fields |-> locked_fields, locked_by |-> NULL,
     created_by |-> created_by]

\* reviewer names the board's reviewer dropdown can have stored
InitReviewers == {"ALICE", "carol"}

\* lock maps lockTaskField can have produced
InitLocked ==
    { <<>>,
      [assign |-> TRUE],
      [status |-> TRUE, review |-> TRUE] }

InitStore(status4, reviewer, locked) ==
    /\ users = InitUsers(status4)
    /\ groups = InitGroups
    /\ tasks = [t \in TaskIds |->
                  IF t = "t1" THEN Task("g1", "alice", reviewer, locked, "u1")
                  ELSE NoRow]
    /\ audit = <<>>
    /\ view = tasks
    /\ op = [s \in Sessions |-> Idle]
    /\ auth = [s \in Sessions |-> SignedOut]
    /\ nops = 0

Init ==
    /\ \E status4 \in {"pending", "locked"}, reviewer \in InitReviewers,
          locked \in InitLocked :
          InitStore(status4, reviewer, locked)
    /\ limit = MaxOps

(***************************************************************************)
(* Inputs.                                                                 *)
(***************************************************************************)
UpdateInputs ==
    { [assign |-> "erin"],
      [status |-> "Done"],
      [status |-> "In Review"],
      [review |-> "ok"],
      [assign |-> "erin", status |-> "In Review"],
      [assign |-> "erin", review |-> "ok"],
      [locked_fields |-> <<>>],
      [owner |-> "Carol"] }

\* tasks handed to createTask
CreateInputs ==
    { [group_id |-> "g1", owner |-> "Carol"],
      [group_id |-> "g2", owner |-> "bob", locked_fields |-> [assign |-> TRUE]] }

\* cell edits of the board: <<field, value>>
BoardEdits ==
    { <<"assign", "erin">>, <<"status", "In Review">>, <<"status", "Done">>,
      <<"review", "ok">>, <<"owner", "Carol">> }

\* field names handed to lockTaskField / unlockTaskField
LockInputs == {"assign", "status", "review"}

Step(s) ==
    \/ \E t \in TaskIds, u \in UpdateInputs, a \in UserIds :
          updateTaskFetch(s, t, u, a, FALSE)
    \/ \E f \in BOOLEAN : updateTaskWrite(s, f)
    \/ updateTaskLog(s, FALSE)
    \/ \E fld \in LockInputs, a \in UserIds : lockTaskFieldFetch(s, "t1", fld, a, FALSE)
    \/ \E f \in BOOLEAN : lockTaskFieldWrite(s, f)
    \/ lockTaskFieldLog(s, FALSE)
    \/ \E fld \in LockInputs, a \in UserIds : unlockTaskFieldFetch(s, "t1", fld, a, FALSE)
    \/ \E f \in BOOLEAN : unlockTaskFieldWrite(s, f)
    \/ unlockTaskFieldLog(s, FALSE)
    \/ \E a \in UserIds, f \in BOOLEAN : deleteTaskFetch(s, "t1", a, f)
    \/ \E f \in BOOLEAN : deleteTaskWrite(s, f)
    \/ deleteTaskLog(s, FALSE)
    \/ \E c \in CreateInputs, a \in UserIds, f \in BOOLEAN : createTaskWrite(s, c, a, f)
    \/ createTaskLog(s, FALSE)
    \/ \E e \in BoardEdits, a \in UserIds, f \in BOOLEAN :
          handleUpdateTask(s, "t1", e[1], e[2], a, f)
    \/ loadData

\* one browser session works through its operations one at a time
Next == Step("s1")

Spec == Init /\ [][Next]_vars

(***************************************************************************)
(* SpecLock: an admin, a mod and a member lock, unlock and update one      *)
(* field of one task, several operations in a row, without store failures. *)
(***************************************************************************)
InitLock ==
    /\ InitStore("locked", "carol", [status |-> TRUE])
    /\ limit = MaxLockOps

LockActors == {"u1", "u2", "u3"}

NextLock ==
    \/ \E a \in LockActors : lockTaskFieldFetch("s1", "t1", "assign", a, FALSE)
    \/ lockTaskFieldWrite("s1", FALSE)
    \/ lockTaskFieldLog("s1", FALSE)
    \/ \E a \in LockActors : unlockTaskFieldFetch("s1", "t1", "assign", a, FALSE)
    \/ unlockTaskFieldWrite("s1", FALSE)
    \/ unlockTaskFieldLog("s1", FALSE)
    \/ \E a \in LockActors : updateTaskFetch("s1", "t1", [assign |-> "erin"], a, FALSE)
    \/ updateTaskWrite("s1", FALSE)
    \/ updateTaskLog("s1", FALSE)

SpecLock == InitLock /\ [][NextLock]_vars

(***************************************************************************)
(* SpecAudit: the services that write the audit log, two operations in a   *)
(* row, with failing pre-image fetches, failing row writes and failing     *)
(* log_audit calls.                                                        *)
(***************************************************************************)
InitAudit ==
    /\ InitStore("pending", "carol", <<>>)
    /\ limit = MaxAuditOps

AuditActors == {"u1", "u3"}
AuditTargets == {"u3", "u4"}

NextAudit ==
    \/ \E u \in AuditTargets, a \in AuditActors, f \in BOOLEAN :
          updateUserFetch("s1", u, [role |-> "mod"], a, f)
    \/ \E f \in BOOLEAN : updateUserWrite("s1", f)
    \/ updateUserLog("s1", FALSE)
    \/ \E a \in AuditActors : approveUserFetch("s1", "u4", "member", a, FALSE)
    \/ approveUserWrite("s1", FALSE)
    \/ approveUserLog("s1", FALSE)
    \/ \E a \in AuditActors : rejectUserFetch("s1", "u4", a, FALSE)
    \/ rejectUserWrite("s1", FALSE)
    \/ rejectUserLog("s1", FALSE)
    \/ \E a \in AuditActors : lockUserFetch("s1", "u3", a, FALSE)
    \/ lockUserWrite("s1", FALSE)
    \/ lockUserLog("s1", FALSE)
    \/ \E a \in AuditActors : unlockUserFetch("s1", "u4", a, FALSE)
    \/ unlockUserWrite("s1", FALSE)
    \/ unlockUserLog("s1", FALSE)
    \/ \E u \in AuditTargets, a \in AuditActors, f \in BOOLEAN :
          deleteUserFetch("s1", u, a, f)
    \/ \E f \in BOOLEAN : deleteUserWrite("s1", f)
    \/ deleteUserLog("s1", FALSE)
    \/ \E a \in AuditActors :
          createTaskGroupWrite("s1", [name |-> "Sprint 3", sort_order |-> 2], a, FALSE)
    \/ \E f \in BOOLEAN : createTaskGroupLog("s1", f)
    \/ \E a \in AuditActors, f \in BOOLEAN :
          updateTaskGroupFetch("s1", "g1", [name |-> "Renamed"], a, f)
    \/ \E f \in BOOLEAN : updateTaskGroupWrite("s1", f)
    \/ updateTaskGroupLog("s1", FALSE)
    \/ \E g \in GroupIds, a \in AuditActors, f \in BOOLEAN :
          deleteTaskGroupFetch("s1", g, a, f)
    \/ \E f \in BOOLEAN : deleteTaskGroupWrite("s1", f)
    \/ deleteTaskGroupLog("s1", FALSE)
    \/ \E a \in AuditActors : updateTaskFetch("s1", "t1", [assign |-> "erin"], a, FALSE)
    \/ \E f \in BOOLEAN : updateTaskWrite("s1", f)
    \/ \E f \in BOOLEAN : updateTaskLog("s1", f)
    \/ \E a \in AuditActors, f \in BOOLEAN : deleteTaskFetch("s1", "t1", a, f)
    \/ \E f \in BOOLEAN : deleteTaskWrite("s1", f)
    \/ deleteTaskLog("s1", FALSE)
    \/ \E a \in AuditActors : lockTaskFieldFetch("s1", "t1", "assign", a, FALSE)
    \/ lockTaskFieldWrite("s1", FALSE)
    \/ lockTaskFieldLog("s1", FALSE)

SpecAudit == InitAudit /\ [][NextAudit]_vars

(***************************************************************************)
(* Registration: RegisterPage.handleSubmit -> AuthContext.signUp ->        *)
(* register_user.                                                          *)
(***************************************************************************)
\* operations started in one behaviour of SpecUsers
MaxUserOps == 2

\* import.meta.env.VITE_ADMIN_INVITE_CODE
VITE_ADMIN_INVITE_CODE == "secret"

\* String.prototype.trim on the form values in use
trim(str) ==
    CASE str = " secret " -> "secret"
      [] str = " " -> ""
      [] OTHER -> str

\* a || b on strings: b when a is the empty string
OrElse(a, b) == IF a = "" THEN b ELSE a

FreeUserIds == {u \in UserIds : users[u] = NoRow}

\* from('users').select('id').eq('username', username).single()
existingUser(username) ==
    \E u \in UserIds : users[u] # NoRow /\ users[u].username = username

\* AuthContext.signUp(username, password, inviteCode?), lines 159-178: the
\* existence check and the row handed to register_user; an absent inviteCode
\* is NULL
signUp(username, inviteCode) ==
    LET adminInviteCode == VITE_ADMIN_INVITE_CODE
        \* inviteCode && inviteCode === adminInviteCode
        isAdminInvite == /\ inviteCode # NULL /\ inviteCode # ""
                         /\ inviteCode = adminInviteCode
        role == IF isAdminInvite THEN "admin" ELSE "member"
        status == IF isAdminInvite THEN "active" ELSE "pending"
    IN  IF existingUser(username)
        THEN [error |-> "Username already exists", row |-> NoRow]
        ELSE [error |-> NULL, row |-> User(username, role, status)]

\* RegisterPage.handleSubmit: the form calls
\*   signUp(username.trim(), password, displayName.trim() || username.trim(),
\*          inviteCode.trim() || undefined)
\* so signUp's third parameter, inviteCode, receives the display name (or
\* the username) and the form's invite code is a fourth argument that
\* signUp does not have.  The step ends at signUp's await of register_user.
handleSubmit(s, username, displayName, inviteCode) ==
    /\ CanStart(s)
    /\ trim(username) # ""
    /\ LET result == signUp(trim(username),
                            OrElse(trim(displayName), trim(username)))
           form == [username |-> username, displayName |-> displayName,
                    inviteCode |-> inviteCode]
           started == [Idle EXCEPT !.kind = "handleSubmit", !.updates = form,
                                   !.data = result.row]
       IN  SetOp(s, IF result.error # NULL
                    THEN [started EXCEPT !.result = "error"]
                    ELSE [started EXCEPT !.pc = "checked", !.result = "pending"])
    /\ nops' = nops + 1
    /\ UNCHANGED <<users, groups, tasks, audit, view, limit, auth>>

\* a register_user on a users table without the UNIQUE constraint
register_user_NoUnique(s, registerFails) ==
    /\ op[s].kind = "handleSubmit" /\ op[s].pc = "checked"
    /\ FreeUserIds # {}
    /\ LET id == CHOOSE u \in FreeUserIds : TRUE
       IN  IF registerFails
           THEN /\ SetOp(s, [op[s] EXCEPT !.pc = "done", !.result = "error"])
                /\ UNCHANGED users
           ELSE /\ users' = [users EXCEPT ![id] = op[s].data]
                /\ SetOp(s, [op[s] EXCEPT !.pc = "done", !.result = "ok", !.target = id,
                       !.field = IF trim(op[s].updates.inviteCode) = VITE_ADMIN_INVITE_CODE
                                 THEN "You are now an admin"
                                 ELSE "Please wait for an administrator"])
    /\ UNCHANGED <<groups, tasks, audit, view, nops, limit, auth>>

\* rpc('register_user') and the rest of signUp and handleSubmit: the INSERT
\* fails on users.username UNIQUE when the name was taken meanwhile, and
\* signUp returns the error; op.field keeps which success message is shown
register_user(s, registerFails) ==
    /\ op[s].kind = "handleSubmit" /\ op[s].pc = "checked"
    /\ FreeUserIds # {}
    /\ LET id == CHOOSE u \in FreeUserIds : TRUE
       IN  IF registerFails \/ existingUser(op[s].data.username)
           THEN /\ Finish(s, "error")
                /\ UNCHANGED users
           ELSE /\ users' = [users EXCEPT ![id] = op[s].data]
                /\ SetOp(s, [op[s] EXCEPT !.pc = "done", !.result = "ok", !.target = id,
                       !.field = IF trim(op[s].updates.inviteCode) = VITE_ADMIN_INVITE_CODE
                                 THEN "You are now an admin"
                                 ELSE "Please wait for an administrator"])
    /\ UNCHANGED <<groups, tasks, audit, view, nops, limit, auth>>

(***************************************************************************)
(* SpecUsers: registrations and user-management calls of an admin, a mod   *)
(* and a member, two operations in a row.                                  *)
(***************************************************************************)
InitRegister ==
    /\ \E u4 \in {NoRow, User("dave", "member", "pending")} :
          users = [InitUsers("pending") EXCEPT !["u4"] = u4]
    /\ groups = InitGroups
    /\ tasks = [t \in TaskIds |->
                  IF t = "t1" THEN Task("g1", "alice", "carol", <<>>, "u1")
                  ELSE NoRow]
    /\ audit = <<>>
    /\ view = tasks
    /\ op = [s \in Sessions |-> Idle]
    /\ auth = [s \in Sessions |-> SignedOut]
    /\ nops = 0
    /\ limit = MaxUserOps

\* form values: <<username, displayName, inviteCode>>
RegisterInputs ==
    { <<"erin", "", "secret">>,
      <<"erin", "Erin", "">>,
      <<"erin", "Erin", "wrong">>,
      <<"erin", " secret ", "">>,
      <<"secret", "", "">>,
      <<"bob", "", "secret">> }

UserActors == {"u1", "u2", "u3"}
UserTargets == {"u3", "u4"}

NextUsers ==
    \/ \E r \in RegisterInputs : handleSubmit("s1", r[1], r[2], r[3])
    \/ \E f \in BOOLEAN : register_user("s1", f)
    \/ \E u \in UserTargets, a \in UserActors, r \in {"mod", "admin"} :
          updateUserFetch("s1", u, [role |-> r], a, FALSE)
    \/ updateUserWrite("s1", FALSE)
    \/ updateUserLog("s1", FALSE)
    \/ \E u \in UserTargets, a \in UserActors, r \in {"member", "mod"} :
          approveUserFetch("s1", u, r, a, FALSE)
    \/ approveUserWrite("s1", FALSE)
    \/ approveUserLog("s1", FALSE)
    \/ \E u \in UserTargets, a \in UserActors : rejectUserFetch("s1", u, a, FALSE)
    \/ rejectUserWrite("s1", FALSE)
    \/ rejectUserLog("s1", FALSE)
    \/ \E u \in UserTargets, a \in UserActors : lockUserFetch("s1", u, a, FALSE)
    \/ lockUserWrite("s1", FALSE)
    \/ lockUserLog("s1", FALSE)
    \/ \E u \in UserTargets, a \in UserActors : unlockUserFetch("s1", u, a, FALSE)
    \/ unlockUserWrite("s1", FALSE)
    \/ unlockUserLog("s1", FALSE)
    \/ \E u \in UserTargets, a \in UserActors : deleteUserFetch("s1", u, a, FALSE)
    \/ deleteUserWrite("s1", FALSE)
    \/ deleteUserLog("s1", FALSE)

SpecUsers == InitRegister /\ [][NextUsers]_vars

(***************************************************************************)
(* SpecRegister: two browser sessions register, their steps interleaved.   *)
(***************************************************************************)
\* registrations started in one behaviour of SpecRegister
MaxRegisterOps == 2

InitRegisterRace ==
    /\ users = [InitUsers("pending") EXCEPT !["u3"] = NoRow, !["u4"] = NoRow]
    /\ groups = InitGroups
    /\ tasks = [t \in TaskIds |->
                  IF t = "t1" THEN Task("g1", "alice", "carol", <<>>, "u1")
                  ELSE NoRow]
    /\ audit = <<>>
    /\ view = tasks
    /\ op = [s \in Sessions |-> Idle]
    /\ auth = [s \in Sessions |-> SignedOut]
    /\ nops = 0
    /\ limit = MaxRegisterOps

StepRegister(s) ==
    \/ \E r \in RegisterInputs : handleSubmit(s, r[1], r[2], r[3])
    \/ \E f \in BOOLEAN : register_user(s, f)

SpecRegister == InitRegisterRace /\ [][\E s \in Sessions : StepRegister(s)]_vars

(***************************************************************************)
(* SpecGroups: the group services and the task services on present and on  *)
(* missing rows, called by the admin and by the member, two operations in  *)
(* a row, with failing row writes.                                         *)
(***************************************************************************)
\* operations started in one behaviour of SpecGroups
MaxGroupOps == 2

InitGroupsStore ==
    /\ users = InitUsers("pending")
    /\ \E g2 \in {NoRow, Group("Sprint 2", 1, "u2")} :
          groups = [InitGroups EXCEPT !["g2"] = g2]
    /\ tasks = [t \in TaskIds |->
                  IF t = "t1" THEN Task("g1", "alice", "carol", <<>>, "u1")
                  ELSE NoRow]
    /\ audit = <<>>
    /\ view = tasks
    /\ op = [s \in Sessions |-> Idle]
    /\ auth = [s \in Sessions |-> SignedOut]
    /\ nops = 0
    /\ limit = MaxGroupOps

\* id lists handed to reorderTaskGroups
ReorderInputs ==
    { <<"g2", "g1">>, <<"g1", "g2">>, <<"g2">>, <<"g1", "g1">> }

GroupActors == {"u1", "u3"}

\* field names handed to lockTaskField / unlockTaskField (fieldName: string):
\* a lockable field and a task column that is not lockable
FieldNameInputs == {"assign", "sort_order"}

NextGroups ==
    \/ \E ids \in ReorderInputs, a \in GroupActors :
          reorderTaskGroupsStart("s1", ids, a)
    \/ \E f \in BOOLEAN : reorderTaskGroupsWrite("s1", f)
    \/ reorderTaskGroupsLog("s1", FALSE)
    \/ \E a \in GroupActors, f \in BOOLEAN :
          createTaskGroupWrite("s1", [name |-> "Sprint 3", sort_order |-> 2], a, f)
    \/ createTaskGroupLog("s1", FALSE)
    \/ \E g \in GroupIds, a \in GroupActors :
          updateTaskGroupFetch("s1", g, [name |-> "Renamed"], a, FALSE)
    \/ \E f \in BOOLEAN : updateTaskGroupWrite("s1", f)
    \/ updateTaskGroupLog("s1", FALSE)
    \/ \E g \in GroupIds, a \in GroupActors : deleteTaskGroupFetch("s1", g, a, FALSE)
    \/ \E f \in BOOLEAN : deleteTaskGroupWrite("s1", f)
    \/ deleteTaskGroupLog("s1", FALSE)
    \/ \E t \in TaskIds : updateTaskFetch("s1", t, [assign |-> "erin"], "u1", FALSE)
    \/ updateTaskWrite("s1", FALSE)
    \/ updateTaskLog("s1", FALSE)
    \/ \E t \in TaskIds, fld \in FieldNameInputs :
          lockTaskFieldFetch("s1", t, fld, "u1", FALSE)
    \/ lockTaskFieldWrite("s1", FALSE)
    \/ lockTaskFieldLog("s1", FALSE)
    \/ \E t \in TaskIds, fld \in FieldNameInputs :
          unlockTaskFieldFetch("s1", t, fld, "u1", FALSE)
    \/ unlockTaskFieldWrite("s1", FALSE)
    \/ unlockTaskFieldLog("s1", FALSE)
    \/ \E t \in TaskIds : deleteTaskFetch("s1", t, "u1", FALSE)
    \/ deleteTaskWrite("s1", FALSE)
    \/ deleteTaskLog("s1", FALSE)

SpecGroups == InitGroupsStore /\ [][NextGroups]_vars

(***************************************************************************)
(* SpecCascade: two sessions create tasks, move a task to another group    *)
(* and delete groups, their steps interleaved.                             *)
(***************************************************************************)
\* operations started in one behaviour of SpecCascade
MaxCascadeOps == 3

InitCascade ==
    /\ InitStore("pending", "carol", <<>>)
    /\ limit = MaxCascadeOps

StepCascade(s) ==
    \/ \E c \in CreateInputs, f \in BOOLEAN : createTaskWrite(s, c, "u1", f)
    \/ createTaskLog(s, FALSE)
    \/ \E g \in GroupIds : updateTaskFetch(s, "t1", [group_id |-> g], "u2", FALSE)
    \/ updateTaskWrite(s, FALSE)
    \/ updateTaskLog(s, FALSE)
    \/ \E g \in GroupIds : deleteTaskGroupFetch(s, g, "u1", FALSE)
    \/ \E f \in BOOLEAN : deleteTaskGroupWrite(s, f)
    \/ deleteTaskGroupLog(s, FALSE)

SpecCascade == InitCascade /\ [][\E s \in Sessions : StepCascade(s)]_vars

(***************************************************************************)
(* SpecRace: two browser sessions lock, unlock and update one task and     *)
(* update one group, their steps interleaved at the awaits.  Both admins   *)
(* are active.                                                             *)
(***************************************************************************)
\* operations started in one behaviour of SpecRace
MaxRaceOps == 2

InitRace ==
    /\ InitStore("active", "carol", <<>>)
    /\ limit = MaxRaceOps

\* the two admins
RaceAdmins == {"u1", "u4"}
\* an admin and the member
RaceWriters == {"u1", "u3"}
RaceFields == {"assign", "status"}
RaceUpdates == {[assign |-> "erin"], [status |-> "In Review"]}

StepRace(s) ==
    \/ \E fld \in RaceFields, a \in RaceAdmins : lockTaskFieldFetch(s, "t1", fld, a, FALSE)
    \/ lockTaskFieldWrite(s, FALSE)
    \/ lockTaskFieldLog(s, FALSE)
    \/ \E fld \in RaceFields, a \in RaceAdmins : unlockTaskFieldFetch(s, "t1", fld, a, FALSE)
    \/ unlockTaskFieldWrite(s, FALSE)
    \/ unlockTaskFieldLog(s, FALSE)
    \/ \E u \in RaceUpdates, a \in RaceWriters : updateTaskFetch(s, "t1", u, a, FALSE)
    \/ updateTaskWrite(s, FALSE)
    \/ updateTaskLog(s, FALSE)
    \/ \E n \in {"Renamed", "Backlog"} :
          updateTaskGroupFetch(s, "g1", [name |-> n], "u1", FALSE)
    \/ updateTaskGroupWrite(s, FALSE)
    \/ updateTaskGroupLog(s, FALSE)

SpecRace == InitRace /\ [][\E s \in Sessions : StepRace(s)]_vars

(***************************************************************************)
(* AuthContext.signIn and signOut.  auth[s] is the AuthContext of the      *)
(* browser of session s.                                                   *)
(***************************************************************************)
\* operations started in one behaviour of SpecSignIn
MaxSignInOps == 2

\* verify_password(p_password, u.password_hash): every account of the model
\* was registered with the password "pw"
verify_password(password, userId) == password = "pw"

\* login_user: the rows whose username is p_username and whose password
\* verifies; usernames are unique, so at most one
login_user(p_username, p_password) ==
    {u \in UserIds : /\ users[u] # NoRow
                     /\ users[u].username = p_username
                     /\ verify_password(p_password, u)}

\* StoredSession
StoredSession(userId, fullUser) ==
    [userId |-> userId, username |-> fullUser.username,
     role |-> fullUser.role, status |-> fullUser.status]

\* a signIn that does not look at the status login_user returned
signInLogin_NoLockCheck(s, username, password, loginFails) ==
    /\ CanStart(s)
    /\ LET data == login_user(username, password)
           started == [Idle EXCEPT !.kind = "signIn",
                          !.updates = [username |-> username, password |-> password]]
       IN  op' = [op EXCEPT ![s] =
                IF loginFails \/ data = {}
                THEN [started EXCEPT !.result = "error"]
                ELSE LET id == CHOOSE u \in data : TRUE
                     IN  [started EXCEPT !.target = id, !.data = users[id],
                                         !.pc = "verified", !.result = "pending"]]
    /\ nops' = nops + 1
    /\ UNCHANGED <<users, groups, tasks, audit, view, limit, auth>>

\* lines 79-106: rpc('login_user'), 'Invalid username or password', the
\* locked check on the row login_user returned
signInLogin(s, username, password, loginFails) ==
    /\ CanStart(s)
    /\ LET data == login_user(username, password)
           started == [Idle EXCEPT !.kind = "signIn",
                          !.updates = [username |-> username, password |-> password]]
       IN  op' = [op EXCEPT ![s] =
                IF loginFails \/ data = {}
                THEN [started EXCEPT !.result = "error"]
                ELSE LET id == CHOOSE u \in data : TRUE
                     IN  IF users[id].status = "locked"
                         THEN [started EXCEPT !.target = id, !.data = users[id],
                                              !.result = "error"]
                         ELSE [started EXCEPT !.target = id, !.data = users[id],
                                              !.pc = "verified", !.result = "pending"]]
    /\ nops' = nops + 1
    /\ UNCHANGED <<users, groups, tasks, audit, view, limit, auth>>

\* lines 108-129: fetch of the full user row, 'Error fetching user data',
\* then localStorage.setItem(SESSION_KEY, ...) and setUser(fullUser)
signInFetch(s, fetchFails) ==
    /\ op[s].kind = "signIn" /\ op[s].pc = "verified"
    /\ LET fullUser == getUserById(op[s].target, fetchFails)
       IN  IF fullUser = NoRow
           THEN /\ op' = [op EXCEPT ![s] = [@ EXCEPT !.pc = "done", !.result = "error"]]
                /\ UNCHANGED auth
           ELSE /\ auth' = [auth EXCEPT ![s] =
                              [session |-> StoredSession(op[s].target, fullUser),
                               user |-> fullUser]]
                /\ op' = [op EXCEPT ![s] = [@ EXCEPT !.pc = "saved"]]
    /\ UNCHANGED <<users, groups, tasks, audit, view, nops, limit>>

\* lines 131-140: log_audit('login', 'user', fullUser.id, fullUser.username)
signInLog(s, auditFails) ==
    /\ op[s].kind = "signIn" /\ op[s].pc = "saved"
    /\ audit' = log_audit(AuditEntry(op[s].target, "login", "user", op[s].target,
                                     auth[s].user.username, NoRow, NoRow),
                          auditFails)
    /\ op' = [op EXCEPT ![s] = [@ EXCEPT !.pc = "done", !.result = "ok"]]
    /\ UNCHANGED <<users, groups, tasks, view, nops, limit, auth>>

\* lines 210-225: the logout entry is sent without awaiting it, then the
\* session is removed
signOut(s, auditFails) ==
    /\ CanStart(s)
    /\ audit' = IF auth[s].user = NoRow THEN audit
                ELSE log_audit(AuditEntry(auth[s].session.userId, "logout", "user",
                                          auth[s].session.userId,
                                          auth[s].user.username, NoRow, NoRow),
                               auditFails)
    /\ auth' = [auth EXCEPT ![s] = SignedOut]
    /\ op' = [op EXCEPT ![s] = [Idle EXCEPT !.kind = "signOut", !.result = "ok"]]
    /\ nops' = nops + 1
    /\ UNCHANGED <<users, groups, tasks, view, limit>>

(***************************************************************************)
(* SpecSignIn: one browser signs in and out, with failing requests, while  *)
(* an admin in another session locks or deletes the member's account.      *)
(***************************************************************************)
InitSignIn ==
    /\ \E status4 \in {"pending", "locked"} : users = InitUsers(status4)
    /\ groups = InitGroups
    /\ tasks = [t \in TaskIds |-> NoRow]
    /\ audit = <<>>
    /\ view = tasks
    /\ op = [s \in Sessions |-> Idle]
    /\ \E first \in {NoRow, users["u2"]} :
          auth = [s \in Sessions |->
                    IF s = "s1" /\ first # NoRow
                    THEN [session |-> StoredSession("u2", first), user |-> first]
                    ELSE SignedOut]
    /\ nops = 0
    /\ limit = MaxSignInOps

\* <<username, password>> typed into the login form
SignInInputs ==
    { <<"Carol", "pw">>, <<"Carol", "bad">>, <<"carol", "pw">>,
      <<"dave", "pw">>, <<"nobody", "pw">> }

NextSignIn ==
    \/ \E c \in SignInInputs, f \in BOOLEAN : signInLogin("s1", c[1], c[2], f)
    \/ \E f \in BOOLEAN : signInFetch("s1", f)
    \/ \E f \in BOOLEAN : signInLog("s1", f)
    \/ \E f \in BOOLEAN : signOut("s1", f)
    \/ lockUserFetch("s2", "u3", "u1", FALSE)
    \/ lockUserWrite("s2", FALSE)
    \/ lockUserLog("s2", FALSE)
    \/ deleteUserFetch("s2", "u3", "u1", FALSE)
    \/ deleteUserWrite("s2", FALSE)
    \/ deleteUserLog("s2", FALSE)

SpecSignIn == InitSignIn /\ [][NextSignIn]_vars

(***************************************************************************)
(* auditService.getChangedFields: the field diff of two audit snapshots.   *)
(* A snapshot is null or an object; an object is kept as the sequence of   *)
(* its <<key, value>> properties in insertion order, which is the order    *)
(* Object.keys walks.                                                      *)
(***************************************************************************)
\* properties of one snapshot
MaxFields == 2

JsString(v) == [type |-> "string", v |-> v]
JsNull == [type |-> "null"]
JsUndefined == [type |-> "undefined"]
JsNumber(n) == [type |-> "number", v |-> n]
\* an object of boolean properties (a locked_fields map)
JsObject(map) == [type |-> "object", v |-> map]

\* the order of the keys of a JSONB object: shorter keys first, then bytewise
JsonbKeyOrder ==
    <<"name", "task", "owner", "assign", "review", "status", "group_id",
      "reviewer", "locked_by", "created_by", "sort_order", "locked_fields">>

\* the properties of an object of booleans as JSON.stringify writes them
RECURSIVE StringifyProps(_, _, _)
StringifyProps(map, keys, first) ==
    IF keys = <<>> THEN ""
    ELSE IF Head(keys) \in DOMAIN map
    THEN (IF first THEN "" ELSE ",") \o "\"" \o Head(keys) \o "\":" \o
         (IF map[Head(keys)] THEN "true" ELSE "false") \o
         StringifyProps(map, Tail(keys), FALSE)
    ELSE StringifyProps(map, Tail(keys), first)

\* a serialization that writes a string without its quotes
JSONstringify_Unquoted(value) ==
    CASE value.type = "string" -> value.v
      [] value.type = "null" -> "null"
      [] value.type = "undefined" -> "undefined"
      [] value.type = "number" -> ToString(value.v)
      [] value.type = "object" -> "{" \o StringifyProps(value.v, JsonbKeyOrder, TRUE) \o "}"

\* JSON.stringify on the values in use: a string is quoted, null gives
\* 'null', undefined gives undefined (no string at all)
JSONstringify(value) ==
    CASE value.type = "string" -> "\"" \o value.v \o "\""
      [] value.type = "null" -> "null"
      [] value.type = "undefined" -> "undefined"
      [] value.type = "number" -> ToString(value.v)
      [] value.type = "object" -> "{" \o StringifyProps(value.v, JsonbKeyOrder, TRUE) \o "}"

NullSnapshot == [isNull |-> TRUE, entries |-> <<>>]

\* Object.keys(values || {})
ObjectKeys(values) ==
    [k \in 1..Len(values.entries) |-> values.entries[k][1]]

\* values?.[key]
Lookup(values, key) ==
    IF \E k \in 1..Len(values.entries) : values.entries[k][1] = key
    THEN values.entries[CHOOSE k \in 1..Len(values.entries) :
                           values.entries[k][1] = key][2]
    ELSE JsUndefined

Range(seq) == {seq[k] : k \in 1..Len(seq)}

\* new Set([...Object.keys(oldValues || {}), ...Object.keys(newValues || {})])
allKeys(oldValues, newValues) ==
    ObjectKeys(oldValues) \o
    SelectSeq(ObjectKeys(newValues),
              LAMBDA key : key \notin Range(ObjectKeys(oldValues)))

\* 'Skip internal fields'
InternalFields == {"id", "created_at", "updated_at", "created_by"}

\* a diff that walks the keys of the old snapshot only
getChangedFields_OldKeysOnly(oldValues, newValues) ==
    IF oldValues.isNull /\ newValues.isNull THEN <<>>
    ELSE LET changed == SelectSeq(ObjectKeys(oldValues), LAMBDA key :
                 /\ key \notin InternalFields
                 /\ JSONstringify(Lookup(oldValues, key)) #
                      JSONstringify(Lookup(newValues, key)))
         IN  [k \in 1..Len(changed) |->
                 [field |-> changed[k],
                  oldValue |-> Lookup(oldValues, changed[k]),
                  newValue |-> Lookup(newValues, changed[k])]]

\* README.md lines 205-231
getChangedFields(oldValues, newValues) ==
    IF oldValues.isNull /\ newValues.isNull THEN <<>>
    ELSE LET changed == SelectSeq(allKeys(oldValues, newValues), LAMBDA key :
                 /\ key \notin InternalFields
                 /\ JSONstringify(Lookup(oldValues, key)) #
                      JSONstringify(Lookup(newValues, key)))
         IN  [k \in 1..Len(changed) |->
                 [field |-> changed[k],
                  oldValue |-> Lookup(oldValues, changed[k]),
                  newValue |-> Lookup(newValues, changed[k])]]

\* the JSON value of column `key` of a stored row or of an update delta
ToJs(key, value) ==
    IF key = "locked_fields" THEN JsObject(value)
    ELSE IF key = "sort_order" THEN JsNumber(value)
    ELSE IF value = NULL THEN JsNull
    ELSE JsString(value)

\* old_values / new_values as read back from the JSONB column: null, or the
\* properties of the row or delta that was logged
ToSnapshot(values) ==
    IF values = NoRow THEN NullSnapshot
    ELSE LET keys == SelectSeq(JsonbKeyOrder, LAMBDA key : key \in DOMAIN values)
         IN  [isNull |-> FALSE,
              entries |-> [k \in 1..Len(keys) |-> <<keys[k], ToJs(keys[k], values[keys[k]])>>]]

\* AuditLogPage.tsx line 184: getChangedFields(log.old_values, log.new_values)
EntryChanges(log) ==
    getChangedFields(ToSnapshot(log.old_values), ToSnapshot(log.new_values))

\* the audit page diffs a pair of snapshots; the call in the other
\* direction is made next to it for the comparison
getChangedFieldsCall(s) ==
    /\ op[s].kind = "getChangedFields" /\ op[s].pc = "call"
    /\ SetOp(s, [op[s] EXCEPT !.pc = "done", !.result = "ok",
                   !.data = [forward |-> getChangedFields(op[s].old, op[s].updates),
                             backward |-> getChangedFields(op[s].updates, op[s].old)]])
    /\ UNCHANGED <<users, groups, tasks, audit, view, nops, limit, auth>>

(***************************************************************************)
(* SpecDiff: getChangedFields on every pair of snapshots of up to          *)
(* MaxFields properties.                                                   *)
(***************************************************************************)
DiffKeys == {"id", "task", "status"}
\* the snapshots are read from JSONB columns: JSON values, never undefined
DiffValues == {JsString("null"), JsNull, JsString("x")}

\* the property lists of n properties with n different keys
Entries(n) ==
    {e \in [1..n -> DiffKeys \X DiffValues] :
        \A j, k \in 1..n : j # k => e[j][1] # e[k][1]}

Snapshots ==
    {NullSnapshot} \cup
    {[isNull |-> FALSE, entries |-> e] : e \in UNION {Entries(n) : n \in 0..MaxFields}}

InitDiff ==
    /\ users = InitUsers("pending")
    /\ groups = InitGroups
    /\ tasks = [t \in TaskIds |-> NoRow]
    /\ audit = <<>>
    /\ view = tasks
    /\ \E oldValues \in Snapshots, newValues \in Snapshots :
          op = [s \in Sessions |->
                  IF s = "s1"
                  THEN [Idle EXCEPT !.kind = "getChangedFields", !.old = oldValues,
                                    !.updates = newValues, !.pc = "call",
                                    !.result = "pending"]
                  ELSE Idle]
    /\ auth = [s \in Sessions |-> SignedOut]
    /\ nops = 0
    /\ limit = 0

SpecDiff == InitDiff /\ [][getChangedFieldsCall("s1")]_vars

(***************************************************************************)
(* Properties.                                                             *)
(***************************************************************************)
\* session s takes a step of its operation
Acting(s) == op'[s] # op[s]

\* the user whose operation session s is running names the task's reviewer
ActorIsReviewer(s, task) ==
    toLowerCase(users[op'[s].actor].username) = toLowerCase(task.reviewer)

\* the fields of an update that the lock map of the task marks true
DeniedFields(task, updates) ==
    {f \in DOMAIN updates :
        f \in DOMAIN task.locked_fields /\ task.locked_fields[f] = TRUE}

\* C1: for every task and every field other than review whose lock is true,
\* an update of the field issued by a member leaves the stored value
\* unchanged, and an updateTask issued by an admin or a mod is not denied.
C1_LockedFieldDeniedToMember ==
    [][\A s \in Sessions :
         Acting(s) =>
           /\ \A t \in TaskIds, f \in {"task", "owner", "assign", "status", "reviewer"} :
                ( /\ op'[s].role = "member"
                  /\ tasks[t] # NoRow /\ tasks'[t] # NoRow
                  /\ f \in DOMAIN tasks[t].locked_fields
                  /\ tasks[t].locked_fields[f] = TRUE )
                => tasks'[t][f] = tasks[t][f]
           /\ (op'[s].kind = "updateTask" /\ op'[s].role \in {"admin", "mod"})
                => op'[s].result # "denied"]_vars

\* C2: the status of a task becomes Done only by an update of the user named
\* as its reviewer (case-insensitively); a Done update by anyone else leaves
\* the row and the audit log unchanged, and the reviewer's updateTask to Done
\* appends exactly one update entry.
C2_DoneOnlyByReviewer ==
    [][\A s \in Sessions :
         Acting(s) =>
           /\ \A t \in TaskIds :
                ( /\ tasks[t] # NoRow /\ tasks'[t] # NoRow
                  /\ tasks[t].status # "Done" /\ tasks'[t].status = "Done" )
                => ActorIsReviewer(s, tasks[t])
           /\ ( /\ op'[s].kind = "updateTask" /\ op'[s].pc = "done"
                /\ op'[s].result = "ok"
                /\ "status" \in DOMAIN op'[s].updates
                /\ op'[s].updates.status = "Done" )
                => /\ ActorIsReviewer(s, op'[s].old)
                   /\ audit' = Append(audit, audit'[Len(audit')])
                   /\ audit'[Len(audit')].action = "update"]_vars

\* C3: the stored review of a task changes only by a write of the user named
\* as its reviewer, whatever the writer's role and whatever the lock on review.
C3_ReviewOnlyByReviewer ==
    [][\A s \in Sessions, t \in TaskIds :
         ( /\ Acting(s)
           /\ tasks[t] # NoRow /\ tasks'[t] # NoRow
           /\ tasks'[t].review # tasks[t].review )
         => ActorIsReviewer(s, tasks[t])]_vars

\* C4: an updateTask that is denied writes none of the fields it touches,
\* appends no audit entry and names exactly the touched fields whose lock is
\* true; a member's updateTask touching at least one such field is denied
\* as a whole, it never reaches the row write.
C4_DeniedUpdateIsAllOrNothing ==
    [][\A s \in Sessions :
         (Acting(s) /\ op'[s].kind = "updateTask") =>
           /\ op'[s].result = "denied" =>
                /\ op'[s].pc = "done"
                /\ tasks' = tasks
                /\ audit' = audit
                /\ op'[s].rejected # {}
                /\ op'[s].rejected = DeniedFields(tasks[op'[s].target], op'[s].updates)
           /\ ( /\ op'[s].role = "member"
                /\ op'[s].old # NoRow
                /\ DeniedFields(op'[s].old, op'[s].updates) # {} )
                => op'[s].result = "denied"]_vars

\* a member's update of a locked and an unlocked field was denied naming the
\* locked one only, and the row and the log are as they were
C4_Witness ==
    \E s \in Sessions :
        /\ op[s].kind = "updateTask" /\ op[s].result = "denied"
        /\ DOMAIN op[s].updates = {"assign", "status"}
        /\ op[s].rejected = {"assign"}
        /\ tasks[op[s].target] = op[s].old
        /\ audit = <<>>

\* C5: no step of an operation issued by a user whose status is pending or
\* locked changes the stored users, groups or tasks.
C5_InactiveActorChangesNothing ==
    [][\A s \in Sessions :
         (Acting(s) /\ users[op'[s].actor].status # "active")
         => store' = store]_vars

\* C6: the locked_fields map of a task changes only in an operation issued
\* by an admin or a mod.
C6_LockMapChangedByAdminOrModOnly ==
    [][\A s \in Sessions, t \in TaskIds :
         ( /\ Acting(s)
           /\ tasks[t] # NoRow /\ tasks'[t] # NoRow
           /\ tasks'[t].locked_fields # tasks[t].locked_fields )
         => op'[s].role \in {"admin", "mod"}]_vars

\* the lock and unlock entries of field assign of task t1, oldest first
AssignLockHistory ==
    SelectSeq(audit, LAMBDA e : /\ e.action \in {"lock", "unlock"}
                                /\ e.entity_type = "task"
                                /\ e.entity_id = "t1"
                                /\ e.entity_name = "T - assign")

LastAssignLockAction ==
    IF AssignLockHistory = <<>> THEN "none"
    ELSE AssignLockHistory[Len(AssignLockHistory)].action

\* C7: once field assign of task t1 has been locked, it is stored as true
\* and a member's updateTask of assign ends denied naming assign, with the
\* stored value kept; once it has then been unlocked, it is stored as false
\* and the same member call ends ok with the value written.
C7_LockThenUnlockGatesMember ==
    /\ LastAssignLockAction = "lock" /\ (\A s \in Sessions : op[s].pc = "done")
         => tasks["t1"].locked_fields["assign"] = TRUE
    /\ LastAssignLockAction = "unlock" /\ (\A s \in Sessions : op[s].pc = "done")
         => tasks["t1"].locked_fields["assign"] = FALSE
    /\ \A s \in Sessions :
         ( /\ op[s].kind = "updateTask" /\ op[s].pc = "done"
           /\ op[s].role = "member"
           /\ "assign" \in DOMAIN op[s].updates )
         => /\ LastAssignLockAction = "lock"
                => /\ op[s].result = "denied"
                   /\ "assign" \in op[s].rejected
                   /\ tasks["t1"].assign = op[s].old.assign
            /\ LastAssignLockAction = "unlock"
                => /\ op[s].result = "ok"
                   /\ tasks["t1"].assign = op[s].updates.assign

\* the admin locked assign, then unlocked it, and the member's update that
\* followed went through
C7_Witness ==
    /\ Len(audit) = 3
    /\ audit[1].action = "lock" /\ audit[1].user_id = "u1"
    /\ audit[1].entity_name = "T - assign"
    /\ audit[2].action = "unlock" /\ audit[2].user_id = "u1"
    /\ audit[2].new_values.locked_fields["assign"] = FALSE
    /\ audit[3].action = "update" /\ audit[3].user_id = "u3"
    /\ op["s1"].kind = "updateTask" /\ op["s1"].result = "ok"
    /\ op["s1"].role = "member"
    /\ tasks["t1"].assign = "erin"

\* C8: a lockTaskField call ends without error also when the field is locked
\* already; its write stores true under the field and keeps every other key
\* of the map, and its log step appends exactly one lock entry, whose old
\* and new maps are identical when the field was locked before.
C8_LockIdempotentOnStateNotOnLog ==
    [][\A s \in Sessions :
         (Acting(s) /\ op'[s].kind = "lockTaskField") =>
           LET o == op'[s]
               before == tasks[o.target].locked_fields
               after == tasks'[o.target].locked_fields
           IN  /\ o.result \in {"pending", "ok"}
               /\ o.pc = "written" =>
                    /\ DOMAIN after = DOMAIN before \cup {o.field}
                    /\ after[o.field] = TRUE
                    /\ \A k \in DOMAIN before : k # o.field => after[k] = before[k]
                    /\ isFieldLocked(o.old, o.field) => after = before
               /\ o.pc = "done" =>
                    /\ Len(audit') = Len(audit) + 1
                    /\ \A i \in 1..Len(audit) : audit'[i] = audit[i]
                    /\ audit'[Len(audit')].action = "lock"
                    /\ audit'[Len(audit')].entity_id = o.target
                    /\ audit'[Len(audit')].new_values.locked_fields[o.field] = TRUE
                    /\ isFieldLocked(o.old, o.field) =>
                         audit'[Len(audit')].old_values = audit'[Len(audit')].new_values
         ]_vars

\* two lock calls in a row on the same field: two lock entries, the second
\* with identical maps, the field true and the status key still there
C8_Witness ==
    /\ Len(audit) >= 2
    /\ audit[1].action = "lock" /\ audit[2].action = "lock"
    /\ audit[1].entity_name = audit[2].entity_name
    /\ audit[1].old_values # audit[1].new_values
    /\ audit[2].old_values = audit[2].new_values
    /\ tasks["t1"].locked_fields = [assign |-> TRUE, status |-> TRUE]

\* C9 as stated: no step modifies or removes an audit entry once written.
C9_AuditNeverModified ==
    [][/\ Len(audit') >= Len(audit)
       /\ \A i \in 1..Len(audit) : audit'[i] = audit[i]]_vars

\* C9 as amended: no step removes an audit entry, and no step modifies one
\* except that the deletion of a user sets user_id to null in the entries
\* naming that user, every other field (the username included) being kept.
C9_AuditAppendOnlyButUserId ==
    [][/\ Len(audit') >= Len(audit)
       /\ \A i \in 1..Len(audit) :
            \/ audit'[i] = audit[i]
            \/ /\ audit[i].user_id \in UserIds
               /\ users[audit[i].user_id] # NoRow
               /\ users'[audit[i].user_id] = NoRow
               /\ audit'[i] = [audit[i] EXCEPT !.user_id = NULL]]_vars

\* an entry that outlived the user who wrote it: user_id nulled, username kept
C9_Witness ==
    \E i \in 1..Len(audit) :
        /\ audit[i].user_id = NULL
        /\ audit[i].username = "Carol"
        /\ users["u3"] = NoRow

\* C10: an operation that ends ok appends exactly one audit entry, in a step
\* after its row write, unless it is a delete whose pre-image fetch found
\* nothing; an operation that ends otherwise appends none; no entry is
\* appended before the row write.
IsDelete(kind) == kind \in {"deleteTask", "deleteTaskGroup", "deleteUser", "rejectUser"}

C10_OneAuditEntryAfterMutation ==
    [][\A s \in Sessions :
         Acting(s) =>
           /\ op'[s].pc # "done" => Len(audit') = Len(audit)
           /\ (op'[s].pc = "done" /\ op'[s].result # "ok") => Len(audit') = Len(audit)
           /\ (op'[s].pc = "done" /\ op'[s].result = "ok") =>
                IF IsDelete(op'[s].kind) /\ op'[s].old = NoRow
                THEN Len(audit') = Len(audit)
                ELSE /\ op[s].pc = "written"
                     /\ Len(audit') = Len(audit) + 1]_vars

\* C11: when the log_audit call of an operation appends nothing after the
\* row write succeeded, the operation still ends ok, the store is left as
\* the write made it and the row the write returned is still the stored row.
C11_AuditFailureIsSwallowed ==
    [][\A s \in Sessions :
         (Acting(s) /\ op[s].pc = "written" /\ audit' = audit) =>
           /\ op'[s].pc = "done"
           /\ op'[s].result = "ok"
           /\ store' = store
           /\ op[s].kind = "updateTask" => tasks'[op[s].target] = op[s].data
           /\ op[s].kind = "createTaskGroup" => groups'[op[s].target] = op[s].data
      ]_vars

\* an updateTask by the admin ended ok with its write in the store and no
\* audit entry: the log_audit call failed
C11_Witness ==
    /\ op["s1"].kind = "updateTask" /\ op["s1"].actor = "u1"
    /\ op["s1"].pc = "done" /\ op["s1"].result = "ok"
    /\ nops = 1
    /\ audit = <<>>
    /\ tasks["t1"] # NoRow /\ tasks["t1"].assign = "erin"

\* C12: a registration that succeeds creates the user with role admin and
\* status active exactly when the invite code supplied in the form equals
\* the configured admin code, and with role member and status pending with
\* any other code, an empty code or none.
C12_AdminExactlyWithAdminCode ==
    [][\A s \in Sessions :
         (Acting(s) /\ op'[s].kind = "handleSubmit" /\ op'[s].result = "ok") =>
           LET row == users'[op'[s].target]
               code == trim(op'[s].updates.inviteCode)
           IN  /\ users[op'[s].target] = NoRow
               /\ row # NoRow
               /\ row.username = trim(op'[s].updates.username)
               /\ IF code = VITE_ADMIN_INVITE_CODE
                  THEN row.role = "admin" /\ row.status = "active"
                  ELSE row.role = "member" /\ row.status = "pending"]_vars

\* C13: in a user-management step a pending user becomes active or locked
\* only by approveUser, approveUser and rejectUser change only users that
\* are pending, and a status changes only along pending -> active and
\* active <-> locked.
C13_StatusLifecycle ==
    [][\A s \in Sessions, u \in UserIds :
         (Acting(s) /\ users[u] # NoRow /\ users'[u] # users[u]) =>
           /\ (users[u].status = "pending" /\ users'[u] # NoRow
                 /\ users'[u].status # "pending")
                => op'[s].kind = "approveUser" /\ users'[u].status = "active"
           /\ op'[s].kind \in {"approveUser", "rejectUser"}
                => users[u].status = "pending"
           /\ (users'[u] # NoRow /\ users'[u].status # users[u].status)
                => <<users[u].status, users'[u].status>> \in
                      { <<"pending", "active">>, <<"active", "locked">>,
                        <<"locked", "active">> }]_vars

\* C14: a step of updateUser, approveUser, rejectUser or deleteUser changes
\* or removes a user row only when the acting user is an admin.
C14_UserManagementByAdminOnly ==
    [][\A s \in Sessions, u \in UserIds :
         ( /\ Acting(s)
           /\ op'[s].kind \in {"updateUser", "approveUser", "rejectUser", "deleteUser"}
           /\ users'[u] # users[u] )
         => op'[s].role = "admin"]_vars

\* C15: a step of createTaskGroup, updateTaskGroup, deleteTaskGroup or
\* reorderTaskGroups changes the task_groups rows only when the acting user
\* is an admin or a mod.
C15_GroupsChangedByAdminOrModOnly ==
    [][\A s \in Sessions :
         ( /\ Acting(s)
           /\ op'[s].kind \in {"createTaskGroup", "updateTaskGroup",
                               "deleteTaskGroup", "reorderTaskGroups"}
           /\ groups' # groups )
         => op'[s].role \in {"admin", "mod"}]_vars

\* every stored task belongs to a stored group
GroupOfEveryTaskExists ==
    \A t \in TaskIds : tasks[t] # NoRow => groups[tasks[t].group_id] # NoRow

\* C16: the row delete of deleteTaskGroup(g) removes the group and every
\* task with group_id = g and no other task, and before and after every
\* step, also when task creations, task moves and group deletions of two
\* sessions interleave, every stored task belongs to a stored group.
C16_GroupDeleteCascades ==
    [][/\ GroupOfEveryTaskExists
       /\ GroupOfEveryTaskExists'
       /\ \A s \in Sessions :
            ( /\ op[s].kind = "deleteTaskGroup" /\ op[s].pc = "fetched"
              /\ op'[s].pc = "written" ) =>
              /\ groups'[op[s].target] = NoRow
              /\ \A t \in TaskIds :
                   IF tasks[t] # NoRow /\ tasks[t].group_id = op[s].target
                   THEN tasks'[t] = NoRow
                   ELSE tasks'[t] = tasks[t]]_vars

\* session s1 inserted task t2 into g1 and has not logged it yet, session
\* s2 then deleted g1: the group, t1 and the new task are gone
C16_Witness ==
    /\ op["s1"].kind = "createTask" /\ op["s1"].pc = "written"
    /\ op["s1"].data.group_id = "g1" /\ op["s1"].target = "t2"
    /\ op["s2"].kind = "deleteTaskGroup" /\ op["s2"].target = "g1"
    /\ op["s2"].pc = "written"
    /\ groups["g1"] = NoRow
    /\ tasks["t1"] = NoRow /\ tasks["t2"] = NoRow


\* the 1-based positions of group g among the first n ids of a list
Positions(ids, g, n) == {k \in 1..n : ids[k] = g}

\* the greatest element of a non-empty set of numbers
Greatest(S) == CHOOSE k \in S : \A j \in S : j <= k

\* C17: in a reorder no update of which fails, the update for the id at
\* 0-based index i sets sort_order of that group to i and changes nothing
\* else; when the call ends ok every listed group has the index of its
\* (last) place in the list as sort_order, every other column and every
\* group not in the list is as at call entry, and exactly one entry was
\* appended: update, group, entity_id null, new_values {order: ids}.
C17_ReorderAssignsIndex ==
    [][\A s \in Sessions :
         (Acting(s) /\ op'[s].kind = "reorderTaskGroups") =>
           LET ids == op'[s].updates.order
               old == op'[s].old
           IN  /\ (op[s].pc = "writing" /\ op'[s].result # "error") =>
                    LET id == ids[op[s].i + 1]
                    IN  /\ \A g \in GroupIds \ {id} : groups'[g] = groups[g]
                        /\ groups[id] # NoRow =>
                             groups'[id] = [groups[id] EXCEPT !.sort_order = op[s].i]
                        /\ audit' = audit
               /\ (op'[s].pc = "done" /\ op'[s].result = "ok") =>
                    /\ \A g \in GroupIds :
                         IF old[g] # NoRow /\ Positions(ids, g, Len(ids)) # {}
                         THEN groups'[g] = [old[g] EXCEPT !.sort_order =
                                              Greatest(Positions(ids, g, Len(ids))) - 1]
                         ELSE groups'[g] = old[g]
                    /\ Len(audit') = Len(audit) + 1
                    /\ \A k \in 1..Len(audit) : audit'[k] = audit[k]
                    /\ audit'[Len(audit')].action = "update"
                    /\ audit'[Len(audit')].entity_type = "group"
                    /\ audit'[Len(audit')].entity_id = NULL
                    /\ audit'[Len(audit')].old_values = NoRow
                    /\ audit'[Len(audit')].new_values = [order |-> ids]]_vars

\* the reorder <<g2, g1>> ended ok: g2 went from 1 to 0, g1 from 0 to 1, and
\* the log holds the one entry of the call
C17_Witness ==
    /\ op["s1"].kind = "reorderTaskGroups" /\ op["s1"].result = "ok"
    /\ op["s1"].updates.order = <<"g2", "g1">>
    /\ op["s1"].old["g2"] # NoRow /\ op["s1"].old["g1"] # NoRow
    /\ groups["g2"] # NoRow /\ groups["g1"] # NoRow
    /\ op["s1"].old["g2"].sort_order = 1 /\ op["s1"].old["g1"].sort_order = 0
    /\ groups["g2"].sort_order = 0 /\ groups["g1"].sort_order = 1
    /\ Len(audit) = 1
    /\ audit[1].entity_id = NULL
    /\ audit[1].new_values = [order |-> <<"g2", "g1">>]

\* C18: when the update for the N-th id of a reorder fails, the call ends
\* at once with the error and no audit entry, the failing step changes no
\* row, the groups listed before N have their new sort_order and every other
\* group is as it was at call entry.
C18_ReorderFailureKeepsPrefix ==
    [][\A s \in Sessions :
         ( /\ Acting(s)
           /\ op[s].kind = "reorderTaskGroups" /\ op[s].pc = "writing"
           /\ op'[s].result = "error" ) =>
           LET ids == op[s].updates.order
               N == op[s].i + 1
           IN  /\ op'[s].pc = "done"
               /\ groups' = groups
               /\ audit' = audit
               /\ \A g \in GroupIds :
                    IF op[s].old[g] # NoRow /\ Positions(ids, g, N - 1) # {}
                    THEN groups'[g] = [op[s].old[g] EXCEPT !.sort_order =
                                         Greatest(Positions(ids, g, N - 1)) - 1]
                    ELSE groups'[g] = op[s].old[g]]_vars

\* the reorder <<g2, g1>> failed at its second update: g2 has its new
\* sort_order 0, g1 its old one, and nothing was logged
C18_Witness ==
    /\ op["s1"].kind = "reorderTaskGroups" /\ op["s1"].result = "error"
    /\ op["s1"].pc = "done" /\ op["s1"].i = 1
    /\ op["s1"].updates.order = <<"g2", "g1">>
    /\ op["s1"].old["g2"] # NoRow /\ op["s1"].old["g2"].sort_order = 1
    /\ groups["g2"] # NoRow /\ groups["g2"].sort_order = 0
    /\ groups["g1"] = op["s1"].old["g1"]
    /\ nops = 1 /\ audit = <<>>

\* the row an operation is aimed at was missing at call entry (the pre-image
\* fetches of SpecGroups do not fail, so a null pre-image is a missing row)
MissingAtEntry(o) ==
    IF o.kind = "reorderTaskGroups"
    THEN \E k \in 1..Len(o.updates.order) : o.old[o.updates.order[k]] = NoRow
    ELSE o.old = NoRow

\* C19: an update, lock, unlock, delete or reorder aimed at a row that does
\* not exist changes no row, writes no audit entry and ends with a failure
\* reported to its caller.
C19_MissingRowFailsLoudly ==
    [][\A s \in Sessions :
         ( /\ Acting(s)
           /\ op'[s].kind \in {"updateTask", "lockTaskField", "unlockTaskField",
                               "deleteTask", "updateTaskGroup", "deleteTaskGroup",
                               "reorderTaskGroups"}
           /\ MissingAtEntry(op'[s]) ) =>
           /\ store' = store
           /\ audit' = audit
           /\ op'[s].pc = "done" => op'[s].result \in {"not_found", "error"}]_vars

\* a reported change with its two values exchanged
Swapped(change) ==
    [field |-> change.field, oldValue |-> change.newValue,
     newValue |-> change.oldValue]

\* C20: for every pair of snapshots, null ones included, the diff taken in
\* the two directions names the same set of fields, each field once, and
\* the entries of one direction are the entries of the other with oldValue
\* and newValue exchanged.
C20_DiffIsSymmetric ==
    \A s \in Sessions :
        (op[s].kind = "getChangedFields" /\ op[s].pc = "done") =>
          LET forward == op[s].data.forward
              backward == op[s].data.backward
          IN  /\ {forward[k].field : k \in 1..Len(forward)} =
                   {backward[k].field : k \in 1..Len(backward)}
              /\ Len(forward) = Len(backward)
              /\ Cardinality({forward[k].field : k \in 1..Len(forward)}) = Len(forward)
              /\ {Swapped(forward[k]) : k \in 1..Len(forward)} = Range(backward)

\* a diff of two objects that reports an added and a changed field, which
\* the two directions list in different order
C20_Witness ==
    /\ op["s1"].kind = "getChangedFields" /\ op["s1"].pc = "done"
    /\ ~op["s1"].old.isNull /\ ~op["s1"].updates.isNull
    /\ Len(op["s1"].data.forward) = 2
    /\ op["s1"].data.forward[1].field # op["s1"].data.backward[1].field
    /\ \E k \in 1..2 : op["s1"].data.forward[k].oldValue = JsUndefined

\* the snapshot has a property named key
HasKey(values, key) == key \in Range(ObjectKeys(values))

\* the two snapshots differ at key: on one side only, or on both sides with
\* different values
DiffersAt(oldValues, newValues, key) ==
    \/ HasKey(oldValues, key) # HasKey(newValues, key)
    \/ /\ HasKey(oldValues, key) /\ HasKey(newValues, key)
       /\ Lookup(oldValues, key) # Lookup(newValues, key)

\* C21: getChangedFields(old, new) reports a field exactly when it is a key
\* of old or of new, is none of id, created_at, updated_at, created_by, and
\* the snapshots differ at it (a key on one side only differs); each entry
\* carries the two values, and two null snapshots give the empty list.
C21_DiffReportsExactlyTheChanges ==
    \A s \in Sessions :
        (op[s].kind = "getChangedFields" /\ op[s].pc = "done") =>
          LET oldValues == op[s].old
              newValues == op[s].updates
              forward == op[s].data.forward
          IN  /\ {forward[k].field : k \in 1..Len(forward)} =
                   {key \in Range(ObjectKeys(oldValues)) \cup Range(ObjectKeys(newValues)) :
                       /\ key \notin {"id", "created_at", "updated_at", "created_by"}
                       /\ DiffersAt(oldValues, newValues, key)}
              /\ \A k \in 1..Len(forward) :
                   /\ forward[k].oldValue = Lookup(oldValues, forward[k].field)
                   /\ forward[k].newValue = Lookup(newValues, forward[k].field)
              /\ (oldValues.isNull /\ newValues.isNull) => forward = <<>>

\* the old snapshot holds an id and a task that is the string 'null', the
\* new one a null task and no id: task is reported, id is not
C21_Witness ==
    /\ op["s1"].kind = "getChangedFields" /\ op["s1"].pc = "done"
    /\ HasKey(op["s1"].old, "id") /\ ~HasKey(op["s1"].updates, "id")
    /\ Lookup(op["s1"].old, "task") = JsString("null")
    /\ Lookup(op["s1"].updates, "task") = JsNull
    /\ {op["s1"].data.forward[k].field : k \in 1..Len(op["s1"].data.forward)} = {"task"}

\* C22: once a task exists its owner never changes: no step of any operation,
\* whatever the role of its actor, stores a different owner in the row.
C22_OwnerNeverChanges ==
    [][\A s \in Sessions, t \in TaskIds :
         (Acting(s) /\ tasks[t] # NoRow /\ tasks'[t] # NoRow)
         => tasks'[t].owner = tasks[t].owner]_vars

\* no two stored users have the same username
UsernamesUnique ==
    \A u, v \in UserIds :
        (u # v /\ users[u] # NoRow /\ users[v] # NoRow)
        => users[u].username # users[v].username

\* C23: usernames are unique in every state, and a registration whose
\* username a stored user has at one of its steps ends at that step with an
\* error and inserts no row, whether the name was taken before the existence
\* check or between the check and the insert.
C23_UsernamesUnique ==
    /\ []UsernamesUnique
    /\ [][\A s \in Sessions :
            ( /\ Acting(s) /\ op'[s].kind = "handleSubmit"
              /\ existingUser(trim(op'[s].updates.username)) )
            => /\ users' = users
               /\ op'[s].pc = "done" /\ op'[s].result = "error"]_vars

\* both sessions passed the existence check for erin; one has inserted the
\* row, the other was refused by the insert
C23_Witness ==
    /\ op["s1"].kind = "handleSubmit" /\ op["s2"].kind = "handleSubmit"
    /\ op["s1"].updates.username = "erin" /\ op["s2"].updates.username = "erin"
    /\ op["s1"].pc = "done" /\ op["s1"].result = "ok"
    /\ op["s2"].pc = "done" /\ op["s2"].result = "error"
    /\ op["s2"].data # NoRow
    /\ Cardinality({u \in UserIds : users[u] # NoRow /\ users[u].username = "erin"}) = 1

\* C24: the row write of a lockTaskField or unlockTaskField by actor a leaves
\* locked_by = a and locked_fields[fieldName] true respectively false, and
\* changes no other key of locked_fields and no other column of the task.
C24_LockWritesOneKeyAndActor ==
    [][\A s \in Sessions :
         ( /\ Acting(s)
           /\ op'[s].kind \in {"lockTaskField", "unlockTaskField"}
           /\ op'[s].pc = "written" ) =>
           LET before == tasks[op'[s].target]
               after == tasks'[op'[s].target]
               f == op'[s].field
           IN  /\ after.locked_by = op'[s].actor
               /\ f \in DOMAIN after.locked_fields
               /\ after.locked_fields[f] = (op'[s].kind = "lockTaskField")
               /\ DOMAIN after.locked_fields = DOMAIN before.locked_fields \cup {f}
               /\ \A k \in DOMAIN before.locked_fields \ {f} :
                    after.locked_fields[k] = before.locked_fields[k]
               /\ \A c \in DOMAIN before \ {"locked_fields", "locked_by"} :
                    after[c] = before[c]]_vars

\* C25: in every state the keys of every task's locked_fields belong to the
\* lockable set task, owner, assign, user_story, acceptance_criteria, status,
\* estimate_date, notes, reviewer, review.
C25_LockKeysAreLockableFields ==
    \A t \in TaskIds :
        tasks[t] # NoRow =>
          DOMAIN tasks[t].locked_fields \subseteq
            LOCKABLE_FIELDS \cup {"user_story", "acceptance_criteria"}

\* C26: for the audit entry that an updateTask or updateTaskGroup appends,
\* the fields getChangedFields reports for its old_values and new_values are
\* exactly the columns whose stored value the update changed.
C26_UpdateDiffIsMinimal ==
    [][\A s \in Sessions :
         ( /\ Acting(s)
           /\ op'[s].kind \in {"updateTask", "updateTaskGroup"}
           /\ op'[s].pc = "done" /\ op'[s].result = "ok"
           /\ op'[s].old # NoRow
           /\ Len(audit') = Len(audit) + 1 ) =>
           LET changes == EntryChanges(audit'[Len(audit')])
           IN  {changes[k].field : k \in 1..Len(changes)} =
                 {c \in DOMAIN op'[s].data : op'[s].data[c] # op'[s].old[c]}]_vars

\* C27: a field of a task that is locked in the store stops being locked
\* only by the row write of an unlockTaskField on that field, also when
\* lock operations of two sessions on different fields interleave.
C27_LockNotLost ==
    [][\A t \in TaskIds, f \in RaceFields :
         ( /\ tasks[t] # NoRow /\ tasks'[t] # NoRow
           /\ isFieldLocked(tasks[t], f) /\ ~isFieldLocked(tasks'[t], f) )
         => \E s \in Sessions :
               /\ Acting(s)
               /\ op'[s].kind = "unlockTaskField"
               /\ op'[s].target = t /\ op'[s].field = f]_vars

\* C28: at the row write of a member's updateTask no field of the update is
\* locked in the store, also when a lockTaskField of that field completes
\* between the member's pre-image fetch and the write.
C28_NoMemberWriteOnLockedField ==
    [][\A s \in Sessions :
         ( /\ Acting(s)
           /\ op'[s].kind = "updateTask" /\ op'[s].role = "member"
           /\ op'[s].pc = "written" )
         => \A f \in DOMAIN op'[s].updates :
               ~isFieldLocked(tasks[op'[s].target], f)]_vars

\* C29: the old_values of the audit entry of an updateTask or
\* updateTaskGroup are the row as it was stored immediately before that
\* update's row write, also when another session's update of the row is
\* applied between the pre-image fetch and the write.
C29_OldValuesAreThePreImage ==
    [][\A s \in Sessions :
         ( /\ Acting(s)
           /\ op'[s].kind \in {"updateTask", "updateTaskGroup"} ) =>
           /\ op'[s].pc = "written" =>
                op'[s].old = (IF op'[s].kind = "updateTask"
                              THEN tasks[op'[s].target]
                              ELSE groups[op'[s].target])
           /\ (op'[s].pc = "done" /\ op'[s].result = "ok") =>
                /\ Len(audit') = Len(audit) + 1
                /\ audit'[Len(audit')].action = "update"
                /\ audit'[Len(audit')].old_values = op'[s].old]_vars

\* C30: the session record and the current user of a browser are set only
\* by a signIn whose credentials verified and whose row returned by
\* login_user is not locked; a signIn that fails (wrong credentials, locked
\* account, failed user fetch) ends without having changed them and without
\* a login entry, which only a successful signIn appends.
C30_SignInEstablishesSessionOnlyOnSuccess ==
    [][\A s \in Sessions :
         /\ (auth'[s] # auth[s] /\ auth'[s] # SignedOut) =>
              /\ op'[s].kind = "signIn" /\ op[s].pc = "verified" /\ op'[s].pc = "saved"
              /\ op'[s].target \in login_user(op'[s].updates.username, "pw")
              /\ verify_password(op'[s].updates.password, op'[s].target)
              /\ op'[s].data.status # "locked"
              /\ auth'[s].user = users[op'[s].target]
              /\ auth'[s].session = StoredSession(op'[s].target, users[op'[s].target])
         /\ (Acting(s) /\ op'[s].kind = "signIn" /\ op'[s].result = "error") =>
              /\ op[s].pc \in {"done", "verified"}
              /\ auth' = auth
              /\ audit' = audit
         /\ (Acting(s) /\ op'[s].kind = "signIn" /\ audit' # audit) =>
              /\ op'[s].pc = "done" /\ op'[s].result = "ok"
              /\ audit' = Append(audit, audit'[Len(audit')])
              /\ audit'[Len(audit')].action = "login"
              /\ audit'[Len(audit')].user_id = op'[s].target]_vars

\* Carol's credentials verified and the fetch of her row failed: the browser
\* still holds bob's session and no entry was written
C30_Witness ==
    /\ op["s1"].kind = "signIn" /\ op["s1"].pc = "done" /\ op["s1"].result = "error"
    /\ op["s1"].updates = [username |-> "Carol", password |-> "pw"]
    /\ op["s1"].data # NoRow /\ op["s1"].data.status = "active"
    /\ auth["s1"].session # NoRow /\ auth["s1"].session.username = "bob"
    /\ auth["s1"].user # NoRow /\ auth["s1"].user.username = "bob"
    /\ audit = <<>>

====
